---------------------------- MODULE Spec2Model ----------------------------
(***************************************************************************)
(* A model of the geometry core of CGView.js: the wrap-aware range length  *)
(* of Sequence, the two layout delegates (LayoutCircular, LayoutLinear)    *)
(* over the bp / x / y scales, and the plot walk of Plot.                  *)
(*                                                                         *)
(* Numbers.  The program computes in doubles; the model computes exactly   *)
(* in integers, with these units:                                          *)
(*   - canvas sizes, scale domains, margins, centerOffsets: pixels;        *)
(*   - angles: 4 * seqLength units to the full circle, so that one bp is   *)
(*     4 units, PI is 2 * seqLength and PI / 2 is seqLength;               *)
(*   - a point returned by pointForBp: its pixel coordinates multiplied by *)
(*     Unit (seqLength - 1 for the linear layout, whose bp scale has that  *)
(*     denominator; TrigScale for the circular layout, whose cosines come  *)
(*     from a table of TrigScale-ths);                                     *)
(*   - a float bp: a numerator over the denominator kept beside it.        *)
(***************************************************************************)
EXTENDS Integers, Sequences, FiniteSets, TLC

VARIABLES
    format,                     \* "circular" | "linear": the active delegate
    seqLength,                  \* sequence.length
    width, height,              \* canvas / viewer size in pixels
    maxMapThicknessProportion,  \* layout._maxMapThicknessProportion, in percent
    zoomFactor,                 \* viewer.zoomFactor
    backboneCenterOffset,       \* backbone.centerOffset
    bpRange,                    \* scale.bp.range(), the domain being [1, seqLength]
    xDomain,                    \* scale.x.domain(), the range being [0, width]
    yDomain,                    \* scale.y.domain(), the range being [0, height]
    positions,                  \* Plot.positions of the plot drawn, <<>> without a plot
    scores,                     \* Plot.scores, one for each position
    baseline, axisMin, axisMax, \* Plot._baseline, _axisMin, _axisMax
    visible,                    \* Plot.visible
    colorsEqual,                \* colorNegative.rgbaString === colorPositive.rgbaString
    contigs,                    \* Sequence._contigs: the contigs, each an id and a length
    viewer,                     \* viewer._loading, viewer.debug, canvas._layers and the
                                \* toBlob callbacks the browser still has to run
    picker,                     \* ColorPicker: color, favorites, and the localStorage item
    call,                       \* the last operation called: name, arguments, result
    ctx                         \* the commands that operation issued on the layer context

vars == <<format, seqLength, width, height, maxMapThicknessProportion,
          zoomFactor, backboneCenterOffset, bpRange, xDomain, yDomain, positions,
          scores, baseline, axisMin, axisMax, visible, colorsEqual, contigs, viewer,
          picker, call, ctx>>

plotVars == <<positions, scores, baseline, axisMin, axisMax, visible, colorsEqual>>

ioVars == <<viewer, picker>>

layoutVars == <<format, seqLength, width, height, maxMapThicknessProportion,
                zoomFactor, backboneCenterOffset, bpRange, xDomain, yDomain, plotVars,
                contigs, ioVars>>

-----------------------------------------------------------------------------
(* Bounds of the model *)

MaxSeqLength == 8          \* sequence lengths 1..MaxSeqLength of SpecRange

(* The lengths the path specification runs over: 24 is the shortest table   *)
(* length above 20 (where a range of length - 1 bp is over 95%), 48 has     *)
(* ranges over 95% whose ends are 2 bp apart.                                *)
PathLengths == {24, 48, 2400}

-----------------------------------------------------------------------------
(* Arithmetic helpers *)

Min(a, b) == IF a <= b THEN a ELSE b

Max(a, b) == IF a >= b THEN a ELSE b

Abs(a) == IF a < 0 THEN -a ELSE a

(* Math.floor, Math.ceil and Math.round (half up) of the fraction n / d, d > 0 *)
Floor(n, d) == n \div d

Ceil(n, d) == -((-n) \div d)

Round(n, d) == (2 * n + d) \div (2 * d)

-----------------------------------------------------------------------------
(* The cosine table: Math.cos and Math.sin at the multiples of 2 PI / TrigRes *)

TrigRes == 96

TrigScale == 1000

QuarterCos == <<1000, 998, 991, 981, 966, 947, 924, 897, 866, 831, 793, 752, 707,
                659, 609, 556, 500, 442, 383, 321, 259, 195, 131, 65, 0>>

cosT(i) ==
    LET k == i % TrigRes
        q == TrigRes \div 4
    IN  IF k <= q THEN QuarterCos[k + 1]
        ELSE IF k <= 2 * q THEN -QuarterCos[(2 * q - k) + 1]
        ELSE IF k <= 3 * q THEN -QuarterCos[(k - 2 * q) + 1]
        ELSE QuarterCos[(4 * q - k) + 1]

sinT(i) == cosT(i - (TrigRes \div 4))

(* Math.PI in angle units *)
PI == 2 * seqLength

(* The table index of an angle given in angle units *)
TrigIndex(angle) == (angle * TrigRes) \div (4 * seqLength)

-----------------------------------------------------------------------------
(* The scales (d3.scaleLinear, not clamped) *)

(* Pixel coordinates of a point are multiplied by Unit *)
Unit == IF format = "linear" THEN seqLength - 1 ELSE TrigScale

(* A scale.bp of range `range` at bp, times (seqLength - 1): the domain is *)
(* [1, seqLength]                                                          *)
scale_bp_of(range, bp) == range[1] * (seqLength - 1) + (bp - 1) * (range[2] - range[1])

(* scale.bp(bp) * (seqLength - 1) *)
scale_bp(bp) == scale_bp_of(bpRange, bp)

(* scale.bp(bp) in angle units, for the circular range *)
radians(bp) == scale_bp(bp) \div (seqLength - 1)

(* scale.x(v) and scale.y(v) of a map coordinate v given times Unit; the   *)
(* result is the canvas coordinate times Unit                              *)
scale_x(v) == ((v - xDomain[1] * Unit) * width) \div (xDomain[2] - xDomain[1])

scale_y(v) == ((yDomain[1] * Unit - v) * height) \div (yDomain[1] - yDomain[2])

(* scale.x.invert(p) and scale.y.invert(p) of a canvas coordinate p given  *)
(* times Unit; the result is the map coordinate times Unit                 *)
scale_x_invert(p) == xDomain[1] * Unit + (p * (xDomain[2] - xDomain[1])) \div width

scale_y_invert(p) == yDomain[1] * Unit - (p * (yDomain[1] - yDomain[2])) \div height

-----------------------------------------------------------------------------
(* Sequence.lengthOfRange *)

lengthOfRange_noWrap(start, stop) == stop - start

lengthOfRange(start, stop) ==
    IF stop >= start
    THEN stop - start
    ELSE seqLength + (stop - start)

-----------------------------------------------------------------------------
(* pointForBp of the two delegates *)

LayoutCircular_pointForBp(bp, centerOffset) ==
    LET rad == TrigIndex(radians(bp))
    IN  [x |-> scale_x(0) + centerOffset * cosT(rad),
         y |-> scale_y(0) + centerOffset * sinT(rad)]

LayoutLinear_pointForBp(bp, centerOffset) ==
    [x |-> scale_x(scale_bp(bp)),
     y |-> scale_y(centerOffset * Unit)]

pointForBp(bp, centerOffset) ==
    IF format = "circular"
    THEN LayoutCircular_pointForBp(bp, centerOffset)
    ELSE LayoutLinear_pointForBp(bp, centerOffset)

-----------------------------------------------------------------------------
(* path of the two delegates: the commands issued on the context *)

MoveTo(p) == [op |-> "moveTo", x |-> p.x, y |-> p.y]

LineTo(p) == [op |-> "lineTo", x |-> p.x, y |-> p.y]

Arc(centerOffset, startRads, stopRads, anticlockwise) ==
    [op |-> "arc", x |-> scale_x(0), y |-> scale_y(0), r |-> centerOffset,
     startAngle |-> startRads, endAngle |-> stopRads,
     anticlockwise |-> anticlockwise]

(* The straight-line branch, shared by both delegates *)
straightPath(centerOffset, startBp, stopBp, startType) ==
    LET p1 == pointForBp(startBp, centerOffset)
        p2 == pointForBp(stopBp, centerOffset)
    IN  IF startType = "lineTo" THEN <<LineTo(p1), LineTo(p2)>>
        ELSE IF startType = "moveTo" THEN <<MoveTo(p1), LineTo(p2)>>
        ELSE IF startType = "noMoveTo" THEN <<LineTo(p2)>>
        ELSE <<>>

LayoutCircular_path_hundredth(centerOffset, startBp, stopBp, anticlockwise, startType) ==
    LET rangeLength == IF anticlockwise
                       THEN lengthOfRange(stopBp, startBp)
                       ELSE lengthOfRange(startBp, stopBp)
    IN  IF 100 * rangeLength < seqLength
        THEN straightPath(centerOffset, startBp, stopBp, startType)
        ELSE <<Arc(centerOffset, radians(startBp), radians(stopBp), anticlockwise)>>

LayoutCircular_path(centerOffset, startBp, stopBp, anticlockwise, startType) ==
    LET rangeLength == IF anticlockwise
                       THEN lengthOfRange(stopBp, startBp)
                       ELSE lengthOfRange(startBp, stopBp)
    IN  IF 1000 * rangeLength < seqLength
        THEN straightPath(centerOffset, startBp, stopBp, startType)
        ELSE IF 20 * rangeLength > 19 * seqLength
        THEN LET startRads == radians(startBp)
                 stopRads == radians(stopBp)
                 half == startRads + ((stopRads - startRads) \div 2)
                 midRads == IF \/ (startBp > stopBp + 1 /\ ~anticlockwise)
                               \/ (startBp < stopBp - 1 /\ anticlockwise)
                            THEN half + PI
                            ELSE half
             IN  <<Arc(centerOffset, startRads, midRads, anticlockwise),
                   Arc(centerOffset, midRads, stopRads, anticlockwise)>>
        ELSE <<Arc(centerOffset, radians(startBp), radians(stopBp), anticlockwise)>>

LayoutLinear_path(centerOffset, startBp, stopBp, anticlockwise, startType) ==
    straightPath(centerOffset, startBp, stopBp, startType)

-----------------------------------------------------------------------------
(* adjustBpScaleRange of the two delegates: the new scale.bp.range() *)

LayoutCircular_adjustBpScaleRange_fullTurn(initialize) ==
    IF initialize
    THEN <<-seqLength, 3 * seqLength>>
    ELSE bpRange

LayoutCircular_adjustBpScaleRange(initialize) ==
    IF initialize
    THEN <<-seqLength, (3 * seqLength) - 4>>
    ELSE bpRange

LayoutLinear_adjustBpScaleRange_accumulating(zoom) ==
    LET rangeHalfWidth == bpRange[2] * zoom
    IN  <<-rangeHalfWidth, rangeHalfWidth>>

LayoutLinear_adjustBpScaleRange(zoom) ==
    LET rangeHalfWidth == (width * zoom) \div 2
    IN  <<-rangeHalfWidth, rangeHalfWidth>>

-----------------------------------------------------------------------------
(* Minimum extra space inside of the map (updateInitialBackboneCenterOffset) *)
insideBuffer == 40

(* A viewer without a plot *)
NoPlot ==
    /\ positions = <<>>
    /\ scores = <<>>
    /\ baseline = 0 /\ axisMin = 0 /\ axisMax = 0
    /\ visible = TRUE
    /\ colorsEqual = TRUE

(* new Viewer: nothing loading, no debug, the layers of the canvas, and no *)
(* callback waiting                                                        *)
Viewer_constructor ==
    [loading |-> FALSE, debug |-> FALSE, layers |-> "layers", toBlob |-> 0]

(* new ColorPicker over the localStorage item `stored`: the default color  *)
(* and no favorites                                                        *)
ColorPicker_constructor(stored) ==
    [color |-> 1, favorites |-> <<>>, stored |-> stored]

(* localStorage without the item of the favorites: getItem gives null *)
NotStored == <<>>

(* The state after construction: the delegate of the format, the bp scale  *)
(* ranged by adjustBpScaleRange(true), the map origin at the canvas centre, *)
(* the backbone where updateInitialBackboneCenterOffset(0, 0) puts it      *)
InitMap(formats, lengths, sizes, proportions) ==
    /\ format \in formats
    /\ seqLength \in lengths
    /\ \E s \in sizes : width = s[1] /\ height = s[2]
    /\ maxMapThicknessProportion \in proportions
    /\ zoomFactor = 1
    /\ backboneCenterOffset = IF format = "circular"
                              THEN Max(Min(width, height) \div 4, insideBuffer)
                              ELSE 0
    /\ bpRange = IF format = "circular"
                 THEN <<-seqLength, (3 * seqLength) - 4>>
                 ELSE <<-(width \div 2), width \div 2>>
    /\ xDomain = <<-(width \div 2), width \div 2>>
    /\ yDomain = <<height \div 2, -(height \div 2)>>
    /\ contigs = <<[id |-> 1, length |-> seqLength, visible |-> TRUE,
                     index |-> 1, lengthOffset |-> 0]>>
    /\ call = [name |-> "idle"]
    /\ ctx = <<>>

InitLayout(formats, lengths, sizes, proportions) ==
    /\ InitMap(formats, lengths, sizes, proportions)
    /\ viewer = Viewer_constructor
    /\ picker = ColorPicker_constructor(NotStored)

(* The program is single-threaded and synchronous: a method is called when *)
(* no other is running, and returns before the next call.                  *)
Idle == call.name = "idle"

Return ==
    /\ ~Idle
    /\ call' = [name |-> "idle"]
    /\ ctx' = <<>>
    /\ UNCHANGED layoutVars

-----------------------------------------------------------------------------
(* SpecRange: Sequence.lengthOfRange over every start and stop *)

LengthOfRange(start, stop) ==
    /\ Idle
    /\ call' = [name |-> "lengthOfRange", start |-> start, stop |-> stop,
                result |-> lengthOfRange(start, stop)]
    /\ ctx' = <<>>
    /\ UNCHANGED layoutVars

InitRange ==
    /\ InitLayout({"circular"}, 1..MaxSeqLength, {<<20, 20>>}, {50})
    /\ NoPlot

NextRange ==
    \/ \E start \in 1..seqLength, stop \in 1..seqLength : LengthOfRange(start, stop)
    \/ Return

SpecRange == InitRange /\ [][NextRange]_vars

-----------------------------------------------------------------------------
(* SpecPath: path() of both delegates *)

StartTypes == {"moveTo", "lineTo", "noMoveTo"}

(* Every bp of the short sequences; of the long one, bp a few steps apart, *)
(* on the far side and at the end. Beyond the resolution of the cosine     *)
(* table a point is that of the table direction below its angle.           *)
PathBps ==
    IF seqLength <= 48
    THEN 1..seqLength
    ELSE {1, 2, 3, 4, 101, 1201, 2282, seqLength - 1, seqLength}

Path(centerOffset, startBp, stopBp, anticlockwise, startType) ==
    /\ Idle
    /\ call' = [name |-> "path", centerOffset |-> centerOffset,
                startBp |-> startBp, stopBp |-> stopBp,
                anticlockwise |-> anticlockwise, startType |-> startType]
    /\ ctx' = IF format = "circular"
              THEN LayoutCircular_path(centerOffset, startBp, stopBp, anticlockwise, startType)
              ELSE LayoutLinear_path(centerOffset, startBp, stopBp, anticlockwise, startType)
    /\ UNCHANGED layoutVars

InitPath ==
    /\ InitLayout({"circular", "linear"}, PathLengths, {<<20, 20>>}, {50})
    /\ NoPlot

NextPath ==
    \/ \E startBp \in PathBps, stopBp \in PathBps,
          anticlockwise \in BOOLEAN, startType \in StartTypes :
           Path(8, startBp, stopBp, anticlockwise, startType)
    \/ Return

SpecPath == InitPath /\ [][NextPath]_vars

-----------------------------------------------------------------------------
(* C1: for a sequence of length L and start, stop in [1, L], lengthOfRange *)
(* is stop - start when stop >= start and (L - start) + stop when          *)
(* stop < start, and it is > 0 whenever start # stop.                      *)
C1_LengthOfRange ==
    call.name = "lengthOfRange" =>
        /\ call.stop >= call.start => call.result = call.stop - call.start
        /\ call.stop < call.start => call.result = (seqLength - call.start) + call.stop
        /\ call.start # call.stop => call.result > 0

C1_Witness ==
    /\ call.name = "lengthOfRange"
    /\ call.stop < call.start
    /\ call.result = 1

-----------------------------------------------------------------------------
(* The sweep of one arc command, as the canvas draws it: the whole circle  *)
(* when the end is a full turn or more ahead in the drawing direction,     *)
(* otherwise the angle from start to end in that direction, below a turn.  *)
ArcSweep(c) ==
    LET full == 4 * seqLength
        ahead == IF c.anticlockwise
                 THEN c.startAngle - c.endAngle
                 ELSE c.endAngle - c.startAngle
    IN  IF ahead >= full THEN full ELSE ahead % full

PathOver95 ==
    /\ call.name = "path"
    /\ format = "circular"
    /\ call.startBp # call.stopBp
    /\ LET rangeLength == IF call.anticlockwise
                          THEN lengthOfRange(call.stopBp, call.startBp)
                          ELSE lengthOfRange(call.startBp, call.stopBp)
       IN  20 * rangeLength > 19 * seqLength

(* C2: a circular path() call with startBp # stopBp whose range length is  *)
(* over 95% of the sequence emits exactly two arcs, the second starting    *)
(* where the first ends, whose sweeps add up to the sweep of the single    *)
(* requested arc from startBp to stopBp.                                   *)
C2_TwoArcsSpanRequested ==
    PathOver95 =>
        /\ Len(ctx) = 2
        /\ ctx[1].op = "arc" /\ ctx[2].op = "arc"
        /\ ctx[2].startAngle = ctx[1].endAngle
        /\ ArcSweep(ctx[1]) + ArcSweep(ctx[2]) =
              ArcSweep(Arc(call.centerOffset, radians(call.startBp),
                           radians(call.stopBp), call.anticlockwise))

-----------------------------------------------------------------------------
(* bpForPoint of the two delegates (integer mode) *)

(* The direction of table angle `angle` (angle units) *)
direction(angle) == [x |-> cosT(TrigIndex(angle)), y |-> sinT(TrigIndex(angle))]

(* sin of the angle from direction d to the vector (vx, vy), up to a       *)
(* positive factor; canvas orientation (y down, angles clockwise)          *)
cross(d, vx, vy) == d.x * vy - d.y * vx

(* utils.angleFromPosition(mapX, mapY): the angle of a map position, in    *)
(* [-PI/2, 3PI/2), the top of the circle (and the origin) at -PI/2.  The   *)
(* result is given to the half bp below it: -seqLength + 2 * s for the     *)
(* half-bp sector s the position lies in.                                  *)
angleFromPosition(mapX, mapY) ==
    IF mapX = 0 /\ mapY = 0
    THEN -seqLength
    ELSE LET s == CHOOSE t \in 0..(2 * seqLength - 1) :
                      /\ cross(direction(-seqLength + 2 * t), mapX, -mapY) >= 0
                      /\ cross(direction(-seqLength + 2 * (t + 1)), mapX, -mapY) < 0
         IN  -seqLength + 2 * s

(* scale.bp.invert(v) as the fraction num / den, v given as vnum / vden of *)
(* the range's unit                                                        *)
scale_bp_invert_num(vnum, vden) ==
    (bpRange[2] - bpRange[1]) * vden + (vnum - bpRange[1] * vden) * (seqLength - 1)

scale_bp_invert_den(vden) == (bpRange[2] - bpRange[1]) * vden

LayoutCircular_bpForPoint(point) ==
    LET mapX == scale_x_invert(point.x)
        mapY == scale_y_invert(point.y)
        angle == angleFromPosition(mapX, mapY)
    IN  Round(scale_bp_invert_num(angle, 1), scale_bp_invert_den(1))

LayoutLinear_bpForPoint_noInvertX(point) ==
    Round(scale_bp_invert_num(point.x, Unit), scale_bp_invert_den(Unit))

LayoutLinear_bpForPoint(point) ==
    LET mapX == scale_x_invert(point.x)
    IN  Round(scale_bp_invert_num(mapX, Unit), scale_bp_invert_den(Unit))

bpForPoint(point) ==
    IF format = "circular"
    THEN LayoutCircular_bpForPoint(point)
    ELSE LayoutLinear_bpForPoint(point)

-----------------------------------------------------------------------------
(* domainsFor of the two delegates: the domains returned (times Unit) and  *)
(* the bp-scale range the call leaves behind                               *)

LayoutCircular_mapPointForBp(bp, centerOffset) ==
    LET rad == TrigIndex(radians(bp))
    IN  [x |-> centerOffset * cosT(rad),
         y |-> -centerOffset * sinT(rad)]

LayoutLinear_mapPointForBp(range, bp, centerOffset) ==
    [x |-> scale_bp_of(range, bp),
     y |-> centerOffset * Unit]

domains(bp, centerPt) ==
    LET halfRangeWidth == (width * Unit) \div 2
        halfRangeHeight == (height * Unit) \div 2
        x == IF bp # 0 THEN centerPt.x ELSE 0
        y == IF bp # 0 THEN centerPt.y ELSE 0
    IN  <<x - halfRangeWidth, x + halfRangeWidth, y + halfRangeHeight, y - halfRangeHeight>>

LayoutCircular_domainsFor(bp, zoom, bbOffset) ==
    LET centerOffset == (backboneCenterOffset * zoom) - bbOffset
        centerPt == LayoutCircular_mapPointForBp(bp, centerOffset)
    IN  [domains |-> domains(bp, centerPt), tempRange |-> bpRange, scaleBp |-> bpRange]

LayoutLinear_domainsFor_noRestore(bp, zoom, bbOffset) ==
    LET rangeHalfWidth2 == (width * zoom) \div 2
        temp == <<-rangeHalfWidth2, rangeHalfWidth2>>
        centerPt == LayoutLinear_mapPointForBp(temp, bp, backboneCenterOffset - bbOffset)
    IN  [domains |-> domains(bp, centerPt), tempRange |-> temp, scaleBp |-> temp]

LayoutLinear_domainsFor(bp, zoom, bbOffset) ==
    LET origScaleBp == bpRange
        rangeHalfWidth2 == (width * zoom) \div 2
        temp == <<-rangeHalfWidth2, rangeHalfWidth2>>
        centerPt == LayoutLinear_mapPointForBp(temp, bp, backboneCenterOffset - bbOffset)
    IN  [domains |-> domains(bp, centerPt), tempRange |-> temp, scaleBp |-> origScaleBp]

-----------------------------------------------------------------------------
(* visibleRangeForCenterOffset of the circular delegate *)

(* scale.x.invert and scale.y.invert of a canvas coordinate in pixels, in  *)
(* pixels                                                                  *)
xInvert(p) == scale_x_invert(p * Unit) \div Unit

yInvert(p) == scale_y_invert(p * Unit) \div Unit

centerVisible ==
    LET x == scale_x(0)
        y == scale_y(0)
    IN  x >= 0 /\ x <= width * Unit /\ y >= 0 /\ y <= height * Unit

(* utils.oppositeSigns(a, b) *)
oppositeSigns(a, b) == (a < 0 /\ b > 0) \/ (a > 0 /\ b < 0)

(* _maximumVisibleRadius(), squared: the hypotenuse is left unrooted *)
maximumVisibleRadiusSq ==
    LET maxX == Max(Abs(xInvert(0)), Abs(xInvert(width)))
        maxY == Max(Abs(yInvert(0)), Abs(yInvert(height)))
    IN  (maxX * maxX) + (maxY * maxY)

(* _minimumVisibleRadius(), squared *)
minimumVisibleRadiusSq ==
    IF centerVisible
    THEN 0
    ELSE IF oppositeSigns(xInvert(0), xInvert(width))
    THEN LET m == Min(Abs(yInvert(0)), Abs(yInvert(height))) IN m * m
    ELSE IF oppositeSigns(yInvert(0), yInvert(height))
    THEN LET m == Min(Abs(xInvert(0)), Abs(xInvert(width))) IN m * m
    ELSE LET minX == Min(Abs(xInvert(0)), Abs(xInvert(width)))
             minY == Min(Abs(yInvert(0)), Abs(yInvert(height)))
         IN  (minX * minX) + (minY * minY)

(* a > sqrt(bsq) and a < sqrt(bsq), for bsq >= 0 *)
GreaterThanRoot(a, bsq) == a > 0 /\ a * a > bsq

LessThanRoot(a, bsq) == a < 0 \/ a * a < bsq

(* a * sqrt(d) + b >= 0, for d >= 0 *)
RootSumNonNegative(a, b, d) ==
    IF a >= 0 /\ b >= 0 THEN TRUE
    ELSE IF a <= 0 /\ b <= 0 THEN a * a * d = 0 /\ b = 0
    ELSE IF a > 0 THEN a * a * d >= b * b
    ELSE a * a * d <= b * b

(* lo <= sigma * sqrt(d) <= hi *)
RootWithin(sigma, d, lo, hi) ==
    /\ RootSumNonNegative(sigma, -lo, d)
    /\ RootSumNonNegative(-sigma, hi, d)

(* utils.circleAnglesFromIntersectingLine for one edge of the rectangle:   *)
(* the crossings of the circle with the edge on the line coordinate = c    *)
(* (horizontal: y = c), between lo and hi of the other coordinate, the one *)
(* nearer to the start of the edge first (towards: the sign of that        *)
(* coordinate's direction along the edge).                                 *)
edgeIntersections(radius, horizontal, c, lo, hi, towards) ==
    LET d == (radius * radius) - (c * c)
        pt(sigma) == [horizontal |-> horizontal, c |-> c, sigma |-> sigma, d |-> d]
        first == IF RootWithin(-towards, d, lo, hi) THEN <<pt(-towards)>> ELSE <<>>
        second == IF RootWithin(towards, d, lo, hi) THEN <<pt(towards)>> ELSE <<>>
    IN  IF d < 0 THEN <<>> ELSE first \o second

(* utils.circleAnglesFromIntersectingRect(radius, x, y, width, height):    *)
(* the crossings with the top, right, bottom and left edge                 *)
circleIntersectionsWithRect(radius, x, y, w, h) ==
    IF radius > 0
    THEN edgeIntersections(radius, TRUE, y, x, x + w, 1)
         \o edgeIntersections(radius, FALSE, x + w, y - h, y, -1)
         \o edgeIntersections(radius, TRUE, y - h, x, x + w, -1)
         \o edgeIntersections(radius, FALSE, x, y - h, y, 1)
    ELSE <<>>

(* utils.angleFromPosition of a crossing, to the half bp below it *)
angleOfIntersection(pt) ==
    LET a(dir) == IF pt.horizontal THEN -(pt.sigma * dir.y) ELSE -(pt.sigma * dir.x)
        b(dir) == IF pt.horizontal THEN -(pt.c * dir.x) ELSE -(pt.c * dir.y)
        ahead(t) == LET dir == direction(-seqLength + 2 * t)
                    IN  RootSumNonNegative(a(dir), b(dir), pt.d)
        s == CHOOSE t \in 0..(2 * seqLength - 1) : ahead(t) /\ ~ahead(t + 1)
    IN  -seqLength + 2 * s

(* _visibleRangesForRadius(radius, options): the bp of the crossings, as   *)
(* numerators over den                                                     *)
visibleRangesForRadius(radius, margin, float) ==
    LET crossings == circleIntersectionsWithRect(radius,
                        xInvert(0 - margin), yInvert(0 - margin),
                        width + (margin * 2), height + (margin * 2))
        den == IF float THEN scale_bp_invert_den(1) ELSE 1
    IN  [i \in 1..Len(crossings) |->
            LET num == scale_bp_invert_num(angleOfIntersection(crossings[i]), 1)
            IN  IF float THEN num ELSE Round(num, scale_bp_invert_den(1))]

CGRange(start, stop, den) == [defined |-> TRUE, start |-> start, stop |-> stop, den |-> den]

Undefined == [defined |-> FALSE]

LayoutCircular_visibleRangeForCenterOffset_noRadiusCheck(centerOffset, margin, float) ==
    LET ranges == visibleRangesForRadius(centerOffset, margin, float)
        den == IF float THEN scale_bp_invert_den(1) ELSE 1
    IN  IF Len(ranges) = 2
        THEN CGRange(ranges[1], ranges[2], den)
        ELSE IF Len(ranges) > 2
        THEN CGRange(ranges[1], ranges[Len(ranges)], den)
        ELSE CGRange(1, seqLength, 1)

LayoutCircular_visibleRangeForCenterOffset_firstTwo(centerOffset, margin, float) ==
    LET ranges == visibleRangesForRadius(centerOffset, margin, float)
        den == IF float THEN scale_bp_invert_den(1) ELSE 1
    IN  IF Len(ranges) >= 2
        THEN CGRange(ranges[1], ranges[2], den)
        ELSE IF GreaterThanRoot(centerOffset - margin, maximumVisibleRadiusSq)
        THEN Undefined
        ELSE IF LessThanRoot(centerOffset + margin, minimumVisibleRadiusSq)
        THEN Undefined
        ELSE CGRange(1, seqLength, 1)

LayoutCircular_visibleRangeForCenterOffset(centerOffset, margin, float) ==
    LET ranges == visibleRangesForRadius(centerOffset, margin, float)
        den == IF float THEN scale_bp_invert_den(1) ELSE 1
    IN  IF Len(ranges) = 2
        THEN CGRange(ranges[1], ranges[2], den)
        ELSE IF Len(ranges) > 2
        THEN CGRange(ranges[1], ranges[Len(ranges)], den)
        ELSE IF GreaterThanRoot(centerOffset - margin, maximumVisibleRadiusSq)
        THEN Undefined
        ELSE IF LessThanRoot(centerOffset + margin, minimumVisibleRadiusSq)
        THEN Undefined
        ELSE CGRange(1, seqLength, 1)

-----------------------------------------------------------------------------
(* visibleRangeForCenterOffset of the linear delegate: the CGRange, its    *)
(* start and stop given as numerators over den (1 unless options.float)    *)

LayoutLinear_visibleRangeForCenterOffset_wrongEdge(centerOffset, margin, float) ==
    LET startNum == scale_bp_invert_num(xDomain[1] - 2 * margin, 1)
        endNum == scale_bp_invert_num(xDomain[2] + 2 * margin, 1)
        den == scale_bp_invert_den(1)
        start == IF float THEN startNum ELSE Floor(startNum, den)
        end == IF float THEN endNum ELSE Ceil(endNum, den)
        one == IF float THEN den ELSE 1
    IN  CGRange(Max(start, one), Min(end, seqLength * one), one)

LayoutLinear_visibleRangeForCenterOffset(centerOffset, margin, float) ==
    LET startNum == scale_bp_invert_num(xDomain[1] - margin, 1)
        endNum == scale_bp_invert_num(xDomain[2] + margin, 1)
        den == scale_bp_invert_den(1)
        start == IF float THEN startNum ELSE Floor(startNum, den)
        end == IF float THEN endNum ELSE Ceil(endNum, den)
        one == IF float THEN den ELSE 1
    IN  CGRange(Max(start, one), Min(end, seqLength * one), one)

-----------------------------------------------------------------------------
(* maxMapThickness of the two delegates, in hundredths of a pixel *)

minDimension == Min(width, height)

LayoutCircular_maxMapThickness == minDimension * maxMapThicknessProportion

LayoutLinear_maxMapThickness_width == width * maxMapThicknessProportion

LayoutLinear_maxMapThickness == height * maxMapThicknessProportion

-----------------------------------------------------------------------------
(* SpecLayout: the delegate methods under zooming and panning *)

MaxZoom == 2               \* zoom factors 1..MaxZoom
MaxPanX == 3               \* the x domain is moved by up to MaxPanX steps either way
MaxPanY == 1               \* the y domain is moved by up to MaxPanY steps either way
MaxMargin == 2             \* margins 0..MaxMargin

PanStep == 8               \* pixels of one pan step

LayoutLengths == {12, 24}

CanvasSizes == {<<20, 20>>, <<20, 30>>, <<30, 20>>}

Proportions == {50}

(* centerOffsets asked for: inside the backbone, the centre, outside, off canvas *)
CenterOffsets == {-6, 0, 1, 6, 40}

BbOffsets == {-3, 0, 3}

(* The viewer's zoom factor changes *)
SetZoomFactor(zoom) ==
    /\ Idle
    /\ zoom # zoomFactor
    /\ zoomFactor' = zoom
    /\ UNCHANGED <<ioVars, format, seqLength, width, height, maxMapThicknessProportion, plotVars, contigs,
                   backboneCenterOffset, bpRange, xDomain, yDomain, call, ctx>>

(* The map is dragged: both domains are translated *)
Translate(dx, dy) ==
    /\ Idle
    /\ Abs((xDomain[1] + dx) + (width \div 2)) <= MaxPanX * PanStep
    /\ Abs((yDomain[1] + dy) - (height \div 2)) <= MaxPanY * PanStep
    /\ xDomain' = <<xDomain[1] + dx, xDomain[2] + dx>>
    /\ yDomain' = <<yDomain[1] + dy, yDomain[2] + dy>>
    /\ UNCHANGED <<ioVars, format, seqLength, width, height, maxMapThicknessProportion, plotVars, contigs,
                   zoomFactor, backboneCenterOffset, bpRange, call, ctx>>

(* adjustBpScaleRange(initialize); zoom and resize events may fire it      *)
(* redundantly, so it also runs right after itself                         *)
AdjustBpScaleRange(initialize) ==
    /\ Idle \/ call.name = "adjustBpScaleRange"
    /\ bpRange' = IF format = "circular"
                  THEN LayoutCircular_adjustBpScaleRange(initialize)
                  ELSE LayoutLinear_adjustBpScaleRange(zoomFactor)
    /\ call' = [name |-> "adjustBpScaleRange", initialize |-> initialize,
                before |-> bpRange,
                repeated |-> (call.name = "adjustBpScaleRange"
                              /\ call.initialize = initialize)]
    /\ ctx' = <<>>
    /\ UNCHANGED <<ioVars, format, seqLength, width, height, maxMapThicknessProportion, plotVars, contigs,
                   zoomFactor, backboneCenterOffset, xDomain, yDomain>>

DomainsFor(bp, zoom, bbOffset) ==
    /\ Idle
    /\ LET r == IF format = "circular"
                THEN LayoutCircular_domainsFor(bp, zoom, bbOffset)
                ELSE LayoutLinear_domainsFor(bp, zoom, bbOffset)
       IN  /\ call' = [name |-> "domainsFor", bp |-> bp, zoom |-> zoom,
                       bbOffset |-> bbOffset, result |-> r.domains,
                       tempRange |-> r.tempRange,
                       before |-> [bpRange |-> bpRange, xDomain |-> xDomain,
                                   yDomain |-> yDomain]]
           /\ bpRange' = r.scaleBp
    /\ ctx' = <<>>
    /\ UNCHANGED <<ioVars, format, seqLength, width, height, maxMapThicknessProportion, plotVars, contigs,
                   zoomFactor, backboneCenterOffset, xDomain, yDomain>>

LinearVisibleRangeForCenterOffset(centerOffset, margin, float) ==
    /\ Idle
    /\ format = "linear"
    /\ call' = [name |-> "visibleRangeForCenterOffset", centerOffset |-> centerOffset,
                margin |-> margin, float |-> float,
                result |-> LayoutLinear_visibleRangeForCenterOffset(centerOffset, margin, float)]
    /\ ctx' = <<>>
    /\ UNCHANGED layoutVars

(* bpForPoint(pointForBp(bp, centerOffset)) *)
BpForPointForBp(bp, centerOffset) ==
    /\ Idle
    /\ LET point == pointForBp(bp, centerOffset)
       IN  call' = [name |-> "bpForPoint", bp |-> bp, centerOffset |-> centerOffset,
                    point |-> point, result |-> bpForPoint(point)]
    /\ ctx' = <<>>
    /\ UNCHANGED layoutVars

MaxMapThickness ==
    /\ Idle
    /\ call' = [name |-> "maxMapThickness",
                result |-> IF format = "circular"
                           THEN LayoutCircular_maxMapThickness
                           ELSE LayoutLinear_maxMapThickness]
    /\ ctx' = <<>>
    /\ UNCHANGED layoutVars

InitLayoutSpec ==
    /\ InitLayout({"circular", "linear"}, LayoutLengths, CanvasSizes, Proportions)
    /\ NoPlot

NextLayout ==
    \/ \E zoom \in 1..MaxZoom : SetZoomFactor(zoom)
    \/ \E dx \in {-PanStep, 0, PanStep}, dy \in {-PanStep, 0, PanStep} :
          (dx # 0 \/ dy # 0) /\ Translate(dx, dy)
    \/ \E initialize \in BOOLEAN : AdjustBpScaleRange(initialize)
    \/ \E bp \in {0, 1, seqLength \div 2, seqLength}, zoom \in 1..MaxZoom,
          bbOffset \in BbOffsets : DomainsFor(bp, zoom, bbOffset)
    \/ \E centerOffset \in CenterOffsets, margin \in 0..MaxMargin, float \in BOOLEAN :
          LinearVisibleRangeForCenterOffset(centerOffset, margin, float)
    \/ \E bp \in 1..seqLength, centerOffset \in CenterOffsets :
          BpForPointForBp(bp, centerOffset)
    \/ MaxMapThickness
    \/ Return

SpecLayout == InitLayoutSpec /\ [][NextLayout]_vars

-----------------------------------------------------------------------------
(* Claims about the layout delegates *)

LinearVisibleRange ==
    call.name = "visibleRangeForCenterOffset" /\ format = "linear"

(* C4: in linear mode, for every pan position, zoom factor and margin, the *)
(* range returned by visibleRangeForCenterOffset has its start and its     *)
(* stop inside [1, sequence length], and start <= stop.                    *)
C4_LinearRangeInBounds ==
    LinearVisibleRange =>
        LET r == call.result
        IN  /\ r.den <= r.start /\ r.start <= seqLength * r.den
            /\ r.den <= r.stop /\ r.stop <= seqLength * r.den
            /\ r.start <= r.stop

(* CGRange.contains(bp), wrap-aware *)
RangeContains(r, bp) ==
    IF r.stop >= r.start
    THEN r.start <= bp * r.den /\ bp * r.den <= r.stop
    ELSE r.start <= bp * r.den \/ bp * r.den <= r.stop

(* A point (coordinates times Unit) lies in the canvas enlarged by margin *)
InCanvas(p, margin) ==
    /\ -(margin * Unit) <= p.x /\ p.x <= (width + margin) * Unit
    /\ -(margin * Unit) <= p.y /\ p.y <= (height + margin) * Unit

C6_RoundTrip ==
    call.name = "bpForPoint" => Abs(call.result - call.bp) <= 1

(* C6 as amended: the same for every centerOffset in linear mode and every *)
(* centerOffset > 0 in circular mode.                                      *)
C6_RoundTripOffCentre ==
    (call.name = "bpForPoint" /\ (format = "linear" \/ call.centerOffset > 0)) =>
        Abs(call.result - call.bp) <= 1

C6_Witness ==
    /\ call.name = "bpForPoint"
    /\ format = "circular"
    /\ call.centerOffset > 0
    /\ call.bp = seqLength
    /\ call.result = seqLength
    /\ xDomain[1] # -(width \div 2)

(* C8: domainsFor does not change the layout's scale state: the bp scale's *)
(* range and the x and y domains after the call equal their values before  *)
(* it.                                                                     *)
C8_DomainsForRestoresScales ==
    call.name = "domainsFor" =>
        /\ bpRange = call.before.bpRange
        /\ xDomain = call.before.xDomain
        /\ yDomain = call.before.yDomain

(* The linear delegate re-ranged the bp scale to another range meanwhile *)
C8_Witness ==
    /\ call.name = "domainsFor"
    /\ format = "linear"
    /\ call.bp # 0
    /\ call.tempRange # call.before.bpRange

(* C9: calling adjustBpScaleRange twice with the same initialize argument, *)
(* zoom factor, canvas width and sequence length leaves the bp-scale range *)
(* as it was after the first call.                                         *)
C9_AdjustIdempotent ==
    (call.name = "adjustBpScaleRange" /\ call.repeated) => bpRange = call.before

(* A second call, after a first one that did change the range *)
C9_Witness ==
    /\ call.name = "adjustBpScaleRange"
    /\ call.repeated
    /\ format = "linear"
    /\ bpRange # <<-(width \div 2), width \div 2>>

(* C10 as claimed: maxMapThickness() is the smaller of the canvas width    *)
(* and height times the maximum-map-thickness proportion, in both modes.   *)
C10_ThicknessOfSmallerDimension ==
    call.name = "maxMapThickness" =>
        call.result = Min(width, height) * maxMapThicknessProportion

(* C10 as amended: in circular mode it is the smaller of width and height  *)
(* times the proportion; in linear mode it is the height times the         *)
(* proportion, also when the canvas is taller than wide.                   *)
C10_ThicknessByMode ==
    call.name = "maxMapThickness" =>
        call.result = (IF format = "circular" THEN Min(width, height) ELSE height)
                          * maxMapThicknessProportion

C10_Witness ==
    /\ call.name = "maxMapThickness"
    /\ format = "linear"
    /\ height > width

-----------------------------------------------------------------------------
(* SpecScenario: the circular delegate on a 500 x 500 canvas centred on    *)
(* the map origin, sequence length 10000, asked for the visible range of   *)
(* circles that lie inside the canvas or around it                         *)

ScenarioOffsets == {r \in 0..1000 : r % 10 = 0 /\ (r <= 240 \/ r >= 400)}

ScenarioMargins == {0, 5, 10}

CircularVisibleRangeForCenterOffset(centerOffset, margin, float) ==
    /\ Idle
    /\ format = "circular"
    /\ call' = [name |-> "visibleRangeForCenterOffset", centerOffset |-> centerOffset,
                margin |-> margin, float |-> float,
                result |-> LayoutCircular_visibleRangeForCenterOffset(centerOffset, margin, float)]
    /\ ctx' = <<>>
    /\ UNCHANGED layoutVars

InitScenario ==
    /\ InitLayout({"circular"}, {10000}, {<<500, 500>>}, {50})
    /\ NoPlot

NextScenario ==
    \/ \E centerOffset \in ScenarioOffsets, margin \in ScenarioMargins, float \in BOOLEAN :
          CircularVisibleRangeForCenterOffset(centerOffset, margin, float)
    \/ Return

SpecScenario == InitScenario /\ [][NextScenario]_vars

Scenario ==
    /\ format = "circular"
    /\ seqLength = 10000
    /\ width = 500 /\ height = 500
    /\ scale_x(0) = 250 * Unit /\ scale_y(0) = 250 * Unit
    /\ call.name = "visibleRangeForCenterOffset"
    /\ call.margin = 0

(* C3 as claimed: in circular mode with sequence length 10000 and a        *)
(* 500 x 500 canvas whose centre is the map origin,                        *)
(* visibleRangeForCenterOffset(500) with no margin returns the range 1 to  *)
(* 10000, not undefined.                                                   *)
C3_Radius500FullRange ==
    (Scenario /\ call.centerOffset = 500) =>
        /\ call.result.defined
        /\ call.result.start = 1 * call.result.den
        /\ call.result.stop = 10000 * call.result.den

(* C3 as amended: there visibleRangeForCenterOffset(500) returns undefined *)
(* (500 is beyond the maximum visible radius, the 353.6 of the canvas      *)
(* corners); the range 1 to 10000 is what it returns for a radius below    *)
(* 250, whose circle lies inside the canvas.                               *)
C3_Radius500Undefined ==
    /\ (Scenario /\ call.centerOffset = 500) => ~call.result.defined
    /\ (Scenario /\ call.centerOffset < 250) =>
          /\ call.result.defined
          /\ call.result.start = 1 * call.result.den
          /\ call.result.stop = 10000 * call.result.den

C3_Witness ==
    /\ Scenario
    /\ call.centerOffset = 500
    /\ ~call.float
    /\ ~call.result.defined

-----------------------------------------------------------------------------
(* Plot: the walk over the positions of a plot                             *)

(* positions[i] of the zero-based array, and whether i is an index of it   *)
positionAt(i) == positions[i + 1]

hasPosition(i) == i >= 0 /\ i < Len(positions)

(* utils.indexOfValue(positions, searchValue, upper): binary search for    *)
(* the index of searchValue, or of its upper or lower neighbour            *)
RECURSIVE indexOfValueBetween(_, _, _, _)
indexOfValueBetween(searchValue, upper, minIndex, maxIndex) ==
    IF maxIndex - minIndex > 1
    THEN LET currentIndex == (minIndex + maxIndex) \div 2
             currentValue == positionAt(currentIndex)
         IN  IF currentValue < searchValue
             THEN indexOfValueBetween(searchValue, upper, currentIndex, maxIndex)
             ELSE IF currentValue > searchValue
             THEN indexOfValueBetween(searchValue, upper, minIndex, currentIndex)
             ELSE currentIndex
    ELSE IF upper THEN maxIndex ELSE minIndex

indexOfValue(searchValue, upper) ==
    LET minIndex == 0
        maxIndex == Len(positions) - 1
    IN  IF positionAt(minIndex) >= searchValue THEN minIndex
        ELSE IF positionAt(maxIndex) <= searchValue THEN maxIndex
        ELSE indexOfValueBetween(searchValue, upper, minIndex, maxIndex)

(* utils.base2(num / den): the smallest power of two that is at least the  *)
(* value, for a value above 1                                              *)
RECURSIVE base2From(_, _, _)
base2From(power, num, den) ==
    IF power * den >= num THEN power ELSE base2From(2 * power, num, den)

base2(num, den) == base2From(1, num, den)

countPositionsFromRange(startValue, stopValue) ==
    LET startIndex0 == indexOfValue(startValue, TRUE)
        stopIndex0 == indexOfValue(stopValue, FALSE)
        startIndex == IF startValue > positionAt(Len(positions) - 1)
                      THEN startIndex0 + 1 ELSE startIndex0
        stopIndex == IF stopValue < positionAt(0)
                     THEN stopIndex0 - 1 ELSE stopIndex0
    IN  IF stopValue >= startValue
        THEN stopIndex - startIndex + 1
        ELSE (Len(positions) - startIndex) + stopIndex + 1

(* The indices i of for (i = from; i <= to; i += step), in order *)
indicesOfLoop(from, to, step) ==
    IF from > to
    THEN <<>>
    ELSE [k \in 1..(((to - from) \div step) + 1) |-> from + (k - 1) * step]

positionsFromRange_firstLoopOnly(startValue, stopValue, step) ==
    LET startIndex0 == indexOfValue(startValue, TRUE)
        stopIndex == indexOfValue(stopValue, FALSE)
        startIndex == IF startIndex0 > 0 /\ step > 1
                      THEN startIndex0 + (step - (startIndex0 % step))
                      ELSE startIndex0
    IN  IF stopValue >= startValue
        THEN IF \/ (hasPosition(startIndex) /\ positionAt(startIndex) > stopValue)
                \/ positionAt(stopIndex) < startValue
             THEN <<>>
             ELSE indicesOfLoop(startIndex, stopIndex, step)
        ELSE IF hasPosition(startIndex) /\ positionAt(startIndex) >= startValue
             THEN indicesOfLoop(startIndex, Len(positions) - 1, step)
             ELSE <<>>

positionsFromRange_startKept(startValue, stopValue, step) ==
    LET startIndex == indexOfValue(startValue, TRUE)
        stopIndex == indexOfValue(stopValue, FALSE)
    IN  IF stopValue >= startValue
        THEN IF \/ (hasPosition(startIndex) /\ positionAt(startIndex) > stopValue)
                \/ positionAt(stopIndex) < startValue
             THEN <<>>
             ELSE indicesOfLoop(startIndex, stopIndex, step)
        ELSE (IF hasPosition(startIndex) /\ positionAt(startIndex) >= startValue
              THEN indicesOfLoop(startIndex, Len(positions) - 1, step)
              ELSE <<>>)
             \o
             (IF positionAt(stopIndex) <= stopValue
              THEN indicesOfLoop(0, stopIndex, step)
              ELSE <<>>)

(* positionsFromRange(startValue, stopValue, step, callback): the indices  *)
(* the callback is called with, in order                                   *)
positionsFromRange(startValue, stopValue, step) ==
    LET startIndex0 == indexOfValue(startValue, TRUE)
        stopIndex == indexOfValue(stopValue, FALSE)
        startIndex == IF startIndex0 > 0 /\ step > 1
                      THEN startIndex0 + (step - (startIndex0 % step))
                      ELSE startIndex0
    IN  IF stopValue >= startValue
        THEN IF \/ (hasPosition(startIndex) /\ positionAt(startIndex) > stopValue)
                \/ positionAt(stopIndex) < startValue
             THEN <<>>
             ELSE indicesOfLoop(startIndex, stopIndex, step)
        ELSE (IF hasPosition(startIndex) /\ positionAt(startIndex) >= startValue
              THEN indicesOfLoop(startIndex, Len(positions) - 1, step)
              ELSE <<>>)
             \o
             (IF positionAt(stopIndex) <= stopValue
              THEN indicesOfLoop(0, stopIndex, step)
              ELSE <<>>)

maxPositions == 4000

(* _drawPath: the position the walk starts at *)
drawPath_startPosition(rangeStart) ==
    LET startIndex == indexOfValue(rangeStart, FALSE)
    IN  IF startIndex = 0 THEN positionAt(startIndex) ELSE rangeStart

drawPath_step_always1(fast, startPosition, stopPosition) == 1

(* _drawPath: the step of the walk *)
drawPath_step(fast, startPosition, stopPosition) ==
    IF fast
    THEN LET positionsLength == countPositionsFromRange(startPosition, stopPosition)
         IN  IF positionsLength > maxPositions   \* initialStep > 1
             THEN base2(positionsLength, maxPositions)
             ELSE 1
    ELSE 1

-----------------------------------------------------------------------------
(* SpecPlot: plots of a few to many thousand positions walked over         *)
(* visible ranges, wrapped or not, in fast and in full mode                *)

PlotSequenceLength == {40000}

PlotLengths == {3, 4000, 4001, 8001, 16001}

PlotStarts == {<<1, 1>>, <<3, 2>>}     \* first position and spacing

RangeEnds == {1, 2, 4, 4001, 8003, 16001, 32003, 40000}

(* _drawPath walks the plot's positions over the range: positionsFromRange *)
(* with the start position and the step _drawPath chooses                  *)
PositionsFromRange(rangeStart, rangeStop, fast) ==
    /\ Idle
    /\ positions # <<>>
    /\ LET startPosition == drawPath_startPosition(rangeStart)
           stopPosition == rangeStop
           step == drawPath_step(fast, startPosition, stopPosition)
           indices == positionsFromRange(startPosition, stopPosition, step)
       IN  call' = [name |-> "positionsFromRange", fast |-> fast,
                    rangeStart |-> rangeStart, rangeStop |-> rangeStop,
                    startValue |-> startPosition, stopValue |-> stopPosition,
                    step |-> step, callbacks |-> Len(indices),
                    firstIndex |-> IF indices = <<>> THEN -1 ELSE indices[1],
                    lastIndex |-> IF indices = <<>> THEN -1 ELSE indices[Len(indices)]]
    /\ ctx' = <<>>
    /\ UNCHANGED layoutVars

InitPlot ==
    /\ InitLayout({"circular", "linear"}, PlotSequenceLength, {<<20, 20>>}, {50})
    /\ \E n \in PlotLengths, s \in PlotStarts :
          /\ positions = [i \in 1..n |-> s[1] + (i - 1) * s[2]]
          /\ scores = [i \in 1..n |-> 1]
    /\ baseline = 0 /\ axisMin = 0 /\ axisMax = 1
    /\ visible = TRUE
    /\ colorsEqual = TRUE

NextPlot ==
    \/ \E rangeStart \in RangeEnds, rangeStop \in RangeEnds, fast \in BOOLEAN :
          PositionsFromRange(rangeStart, rangeStop, fast)
    \/ Return

SpecPlot == InitPlot /\ [][NextPlot]_vars

(* C7: in fast mode, for any ascending positions array and any visible     *)
(* range, wrapped or not, the number of indices positionsFromRange passes  *)
(* to its callback with the step _drawPath chooses is at most 8000.        *)
C7_FastCallbacksCapped ==
    (call.name = "positionsFromRange" /\ call.fast) => call.callbacks <= 8000

(* A fast walk over a wrapped range of more than 8000 positions *)
C7_Witness ==
    /\ call.name = "positionsFromRange"
    /\ call.fast
    /\ call.stopValue < call.startValue
    /\ countPositionsFromRange(call.startValue, call.stopValue) > 8000
    /\ call.step >= 4
    /\ call.callbacks > 2000

-----------------------------------------------------------------------------
(* updateInitialBackboneCenterOffset and pixelsPerBp of the two delegates  *)

(* The new backbone.centerOffset. The canvas sizes and thicknesses drawn   *)
(* below make minDimension * 0.25 and (outside - inside) / 2 whole pixels. *)
LayoutCircular_updateInitialBackboneCenterOffset(insideThickness, outsideThickness) ==
    LET midRadius == minDimension \div 4
        adjustedMidRadius == Max(midRadius, insideThickness + insideBuffer)
    IN  adjustedMidRadius - ((outsideThickness - insideThickness) \div 2)

LayoutLinear_updateInitialBackboneCenterOffset(insideThickness, outsideThickness) == 0

(* pixelsPerBp(centerOffset) as a fraction num / den; in circular mode the *)
(* fraction is in units of PI pixels                                       *)
LayoutCircular_pixelsPerBp(centerOffset) ==
    [num |-> centerOffset * 2, den |-> seqLength]

LayoutLinear_pixelsPerBp_bpPerPixel(range, centerOffset) ==
    [num |-> seqLength - 1, den |-> range[2] - range[1]]

(* range: scaleBp.range(); scaleBp.invert of its ends is the domain 1 and  *)
(* sequence length                                                         *)
LayoutLinear_pixelsPerBp(range, centerOffset) ==
    [num |-> range[2] - range[1], den |-> seqLength - 1]

(* a <= b for fractions of positive denominators *)
FractionLeq(a, b) == a.num * b.den <= b.num * a.den

-----------------------------------------------------------------------------
(* SpecMetrics: the backbone placed for track stacks of several            *)
(* thicknesses, and the pixels per bp measured under several zoom factors  *)

MaxMetricZoom == 4

MetricSizes == {<<20, 20>>, <<400, 600>>, <<800, 400>>}

Thicknesses == {0, 10, 20, 60, 100, 200}

MetricOffsets == {-6, 0, 6, 40}

UpdateInitialBackboneCenterOffset(insideThickness, outsideThickness) ==
    /\ Idle
    /\ backboneCenterOffset' =
          IF format = "circular"
          THEN LayoutCircular_updateInitialBackboneCenterOffset(insideThickness, outsideThickness)
          ELSE LayoutLinear_updateInitialBackboneCenterOffset(insideThickness, outsideThickness)
    /\ call' = [name |-> "updateInitialBackboneCenterOffset",
                insideThickness |-> insideThickness,
                outsideThickness |-> outsideThickness]
    /\ ctx' = <<>>
    /\ UNCHANGED <<ioVars, format, seqLength, width, height, maxMapThicknessProportion, plotVars, contigs,
                   zoomFactor, bpRange, xDomain, yDomain>>

PixelsPerBp(centerOffset) ==
    /\ Idle
    /\ call' = [name |-> "pixelsPerBp", centerOffset |-> centerOffset,
                result |-> IF format = "circular"
                           THEN LayoutCircular_pixelsPerBp(centerOffset)
                           ELSE LayoutLinear_pixelsPerBp(bpRange, centerOffset)]
    /\ ctx' = <<>>
    /\ UNCHANGED layoutVars

InitMetrics ==
    /\ InitLayout({"circular", "linear"}, {12, 24}, MetricSizes, {50})
    /\ NoPlot

NextMetrics ==
    \/ \E zoom \in 1..MaxMetricZoom : SetZoomFactor(zoom)
    \/ \E initialize \in BOOLEAN : AdjustBpScaleRange(initialize)
    \/ \E insideThickness \in Thicknesses, outsideThickness \in Thicknesses :
          UpdateInitialBackboneCenterOffset(insideThickness, outsideThickness)
    \/ \E centerOffset \in MetricOffsets : PixelsPerBp(centerOffset)
    \/ Return

SpecMetrics == InitMetrics /\ [][NextMetrics]_vars

(* C11: after circular updateInitialBackboneCenterOffset(insideThickness,  *)
(* outsideThickness), for all non-negative thicknesses, the inner edge of  *)
(* the track stack, backbone.centerOffset - insideThickness, is at least   *)
(* the 40 pixel inside buffer away from the circle centre.                 *)
C11_InsideBufferRespected ==
    (call.name = "updateInitialBackboneCenterOffset" /\ format = "circular") =>
        backboneCenterOffset - call.insideThickness >= insideBuffer

(* The bp scale has been re-ranged for the current zoom factor *)
RangedForZoom ==
    bpRange = (IF format = "circular"
               THEN LayoutCircular_adjustBpScaleRange(TRUE)
               ELSE LayoutLinear_adjustBpScaleRange(zoomFactor))

(* C12: with the offset argument and the sequence length fixed and the bp  *)
(* scale re-ranged for each zoom factor, pixelsPerBp at z1 is at most      *)
(* pixelsPerBp at z2 for z1 <= z2, in both modes; in linear mode the value *)
(* does not depend on the offset.                                          *)
C12_PixelsPerBpMonotone ==
    (call.name = "pixelsPerBp" /\ RangedForZoom) =>
        /\ \A z1 \in 1..zoomFactor :
              FractionLeq(IF format = "circular"
                          THEN LayoutCircular_pixelsPerBp(call.centerOffset)
                          ELSE LayoutLinear_pixelsPerBp(LayoutLinear_adjustBpScaleRange(z1),
                                                        call.centerOffset),
                          call.result)
        /\ format = "linear" =>
              \A centerOffset \in MetricOffsets :
                  LayoutLinear_pixelsPerBp(bpRange, centerOffset) = call.result

(* Measured in linear mode at the largest zoom factor, where it is larger  *)
(* than at zoom factor 1                                                   *)
C12_Witness ==
    /\ call.name = "pixelsPerBp"
    /\ RangedForZoom
    /\ format = "linear"
    /\ zoomFactor = MaxMetricZoom
    /\ ~FractionLeq(call.result,
                    LayoutLinear_pixelsPerBp(LayoutLinear_adjustBpScaleRange(1),
                                             call.centerOffset))

-----------------------------------------------------------------------------
(* Claims about the commands path() issues *)

IsStraight(command) == command.op \in {"moveTo", "lineTo"}

PathRangeLength ==
    IF call.anticlockwise
    THEN lengthOfRange(call.stopBp, call.startBp)
    ELSE lengthOfRange(call.startBp, call.stopBp)

(* C13: path() in linear mode emits only straight segments (moveTo and     *)
(* lineTo, never arc); path() in circular mode emits straight segments     *)
(* exactly when the range length is less than a thousandth of the sequence *)
(* length, and arc commands and no moveTo or lineTo otherwise.             *)
C13_StraightOrArc ==
    call.name = "path" =>
        /\ ctx # <<>>
        /\ format = "linear" => \A i \in 1..Len(ctx) : IsStraight(ctx[i])
        /\ format = "circular" =>
              IF 1000 * PathRangeLength < seqLength
              THEN \A i \in 1..Len(ctx) : IsStraight(ctx[i])
              ELSE \A i \in 1..Len(ctx) : ctx[i].op = "arc"

(* A circular path over two bp of 2400 drawn straight *)
C13_Witness ==
    /\ call.name = "path"
    /\ format = "circular"
    /\ PathRangeLength = 2
    /\ seqLength = 2400
    /\ Len(ctx) = 2
    /\ IsStraight(ctx[1])

-----------------------------------------------------------------------------
(* Malformed geometry inputs: a bp that is NaN or undefined, a negative    *)
(* centerOffset. A JavaScript number is a record here: NaN, or a value.    *)

JsNaN == [nan |-> TRUE]

JsNum(v) == [nan |-> FALSE, v |-> v]

JsPoint(p) == [x |-> JsNum(p.x), y |-> JsNum(p.y)]

(* pointForBp for any bp: Math.cos and Math.sin of NaN are NaN, a scale of *)
(* NaN is not a number                                                     *)
LayoutCircular_pointForBp_any(bp, centerOffset) ==
    IF bp.nan
    THEN [x |-> JsNaN, y |-> JsNaN]
    ELSE JsPoint(LayoutCircular_pointForBp(bp.v, centerOffset))

LayoutLinear_pointForBp_any(bp, centerOffset) ==
    IF bp.nan
    THEN [x |-> JsNaN, y |-> JsNum(scale_y(centerOffset * Unit))]
    ELSE JsPoint(LayoutLinear_pointForBp(bp.v, centerOffset))

pointForBp_any(bp, centerOffset) ==
    IF format = "circular"
    THEN LayoutCircular_pointForBp_any(bp, centerOffset)
    ELSE LayoutLinear_pointForBp_any(bp, centerOffset)

(* A command of the path of finite arguments, as JavaScript numbers *)
JsCommand(command) ==
    IF command.op = "arc"
    THEN [op |-> "arc", x |-> JsNum(command.x), y |-> JsNum(command.y),
          r |-> JsNum(command.r), startAngle |-> JsNum(command.startAngle),
          endAngle |-> JsNum(command.endAngle), anticlockwise |-> command.anticlockwise]
    ELSE [op |-> command.op, x |-> JsNum(command.x), y |-> JsNum(command.y)]

JsCommands(commands) == [i \in 1..Len(commands) |-> JsCommand(commands[i])]

straightPath_any(centerOffset, startBp, stopBp, startType) ==
    LET p1 == pointForBp_any(startBp, centerOffset)
        p2 == pointForBp_any(stopBp, centerOffset)
        lineTo(p) == [op |-> "lineTo", x |-> p.x, y |-> p.y]
        moveTo(p) == [op |-> "moveTo", x |-> p.x, y |-> p.y]
    IN  IF startType = "lineTo" THEN <<lineTo(p1), lineTo(p2)>>
        ELSE IF startType = "moveTo" THEN <<moveTo(p1), lineTo(p2)>>
        ELSE IF startType = "noMoveTo" THEN <<lineTo(p2)>>
        ELSE <<>>

(* path() of the circular delegate for any bp: with a NaN bp the range     *)
(* length is NaN, neither comparison with it holds, and the single arc is  *)
(* issued                                                                  *)
LayoutCircular_path_any(centerOffset, startBp, stopBp, anticlockwise, startType) ==
    LET radiansOf(bp) == IF bp.nan THEN JsNaN ELSE JsNum(radians(bp.v))
    IN  IF startBp.nan \/ stopBp.nan
        THEN <<[op |-> "arc", x |-> JsNum(scale_x(0)), y |-> JsNum(scale_y(0)),
                r |-> JsNum(centerOffset), startAngle |-> radiansOf(startBp),
                endAngle |-> radiansOf(stopBp), anticlockwise |-> anticlockwise]>>
        ELSE JsCommands(LayoutCircular_path(centerOffset, startBp.v, stopBp.v,
                                            anticlockwise, startType))

LayoutLinear_path_any(centerOffset, startBp, stopBp, anticlockwise, startType) ==
    straightPath_any(centerOffset, startBp, stopBp, startType)

(* CanvasRenderingContext2D: a command with an argument that is not finite *)
(* is ignored; arc() with finite arguments and a negative radius throws an *)
(* IndexSizeError                                                          *)
contextIgnores(command) ==
    \/ command.x.nan \/ command.y.nan
    \/ command.op = "arc"
       /\ (command.r.nan \/ command.startAngle.nan \/ command.endAngle.nan)

contextThrows(command) ==
    /\ command.op = "arc"
    /\ ~contextIgnores(command)
    /\ command.r.v < 0

-----------------------------------------------------------------------------
(* SpecMalformed: pointForBp and path() called with malformed inputs and   *)
(* with well-formed ones                                                   *)

AnyBps == {JsNaN, JsNum(1), JsNum(2), JsNum(seqLength)}

AnyOffsets == {-6, 0, 6}

PointForBpAny(bp, centerOffset) ==
    /\ Idle
    /\ call' = [name |-> "pointForBp", bp |-> bp, centerOffset |-> centerOffset,
                result |-> pointForBp_any(bp, centerOffset), raised |-> FALSE]
    /\ ctx' = <<>>
    /\ UNCHANGED layoutVars

(* path(): the commands reach the context one after the other, until one   *)
(* throws                                                                  *)
PathAny(centerOffset, startBp, stopBp, anticlockwise, startType) ==
    /\ Idle
    /\ LET commands == IF format = "circular"
                       THEN LayoutCircular_path_any(centerOffset, startBp, stopBp,
                                                    anticlockwise, startType)
                       ELSE LayoutLinear_path_any(centerOffset, startBp, stopBp,
                                                  anticlockwise, startType)
           throwing == {i \in 1..Len(commands) : contextThrows(commands[i])}
           done == IF throwing = {}
                   THEN Len(commands)
                   ELSE (CHOOSE i \in throwing : \A j \in throwing : i <= j) - 1
       IN  /\ call' = [name |-> "path", centerOffset |-> centerOffset,
                       startBp |-> startBp, stopBp |-> stopBp,
                       anticlockwise |-> anticlockwise, startType |-> startType,
                       raised |-> throwing # {}]
           /\ ctx' = SubSeq(commands, 1, done)
    /\ UNCHANGED layoutVars

InitMalformed ==
    /\ InitLayout({"circular", "linear"}, {12, 24}, {<<20, 20>>}, {50})
    /\ NoPlot

NextMalformed ==
    \/ \E bp \in AnyBps, centerOffset \in AnyOffsets : PointForBpAny(bp, centerOffset)
    \/ \E centerOffset \in AnyOffsets, startBp \in AnyBps, stopBp \in AnyBps,
          anticlockwise \in BOOLEAN, startType \in StartTypes :
           PathAny(centerOffset, startBp, stopBp, anticlockwise, startType)
    \/ Return

SpecMalformed == InitMalformed /\ [][NextMalformed]_vars

(* C14: malformed geometry inputs never raise: pointForBp in either mode,  *)
(* given a NaN or undefined bp or a negative centerOffset, returns a point *)
(* (with NaN in the affected coordinates for such a bp) instead of         *)
(* throwing, and path() hands such points to the drawing context without   *)
(* raising an error.                                                       *)
C14_MalformedNeverRaises ==
    /\ call.name = "pointForBp" =>
          /\ ~call.raised
          /\ call.bp.nan => call.result.x.nan
          /\ (call.bp.nan /\ format = "circular") => call.result.y.nan
    /\ call.name = "path" => ~call.raised

-----------------------------------------------------------------------------
(* Plot: baseline, axisMin and axisMax                                     *)

(* d3.min and d3.max of the scores *)
scoreMin == CHOOSE s \in {scores[i] : i \in 1..Len(scores)} :
                \A i \in 1..Len(scores) : s <= scores[i]

scoreMax == CHOOSE s \in {scores[i] : i \in 1..Len(scores)} :
                \A i \in 1..Len(scores) : s >= scores[i]

(* An option of the data passed to the constructor: given or undefined *)
Given(v) == [defined |-> TRUE, v |-> v]

(* utils.defaultFor(value, defaultValue) *)
defaultFor(value, defaultValue) == IF value.defined THEN value.v ELSE defaultValue

Plot_set_baseline_unclamped(value, minAxis, maxAxis) == value

(* set baseline(value), with this.axisMin and this.axisMax: the new        *)
(* _baseline                                                               *)
Plot_set_baseline(value, minAxis, maxAxis) ==
    IF value > maxAxis THEN maxAxis
    ELSE IF value < minAxis THEN minAxis
    ELSE value

(* set axisMin(value), with this.baseline (undefined inside the            *)
(* constructor, where d3.min skips it): the new _axisMin                   *)
Plot_set_axisMin(value, currentBaseline) ==
    LET minValue == IF currentBaseline.defined
                    THEN Min(scoreMin, currentBaseline.v)
                    ELSE scoreMin
    IN  IF value > minValue THEN minValue ELSE value

Plot_set_axisMax(value, currentBaseline) ==
    LET maxValue == IF currentBaseline.defined
                    THEN Max(scoreMax, currentBaseline.v)
                    ELSE scoreMax
    IN  IF value < maxValue THEN maxValue ELSE value

(* The constructor: axisMin, axisMax and baseline are assigned in this     *)
(* order from the data or their defaults                                   *)
Plot_constructor(data) ==
    LET newAxisMin == Plot_set_axisMin(defaultFor(data.axisMin, Min(0, scoreMin)), Undefined)
        newAxisMax == Plot_set_axisMax(defaultFor(data.axisMax, Max(0, scoreMax)), Undefined)
    IN  /\ axisMin = newAxisMin
        /\ axisMax = newAxisMax
        /\ baseline = Plot_set_baseline(defaultFor(data.baseline, 0), newAxisMin, newAxisMax)

-----------------------------------------------------------------------------
(* SpecAxes: plots of one or two scores constructed with and without axis  *)
(* options, then assigned baselines and axis bounds                        *)

MaxAxisValue == 3

AxisValues == (-MaxAxisValue)..MaxAxisValue

ScoreLists == {<<1>>, <<-2, 1>>, <<2, 3>>, <<-1, -3>>, <<0, 0>>}

SetBaseline(value) ==
    /\ Idle
    /\ baseline' = Plot_set_baseline(value, axisMin, axisMax)
    /\ call' = [name |-> "baseline", value |-> value]
    /\ ctx' = <<>>
    /\ UNCHANGED <<ioVars, format, seqLength, width, height, maxMapThicknessProportion, zoomFactor,
                   backboneCenterOffset, bpRange, xDomain, yDomain, contigs, positions, scores,
                   axisMin, axisMax, visible, colorsEqual>>

SetAxisMin(value) ==
    /\ Idle
    /\ axisMin' = Plot_set_axisMin(value, Given(baseline))
    /\ call' = [name |-> "axisMin", value |-> value]
    /\ ctx' = <<>>
    /\ UNCHANGED <<ioVars, format, seqLength, width, height, maxMapThicknessProportion, zoomFactor,
                   backboneCenterOffset, bpRange, xDomain, yDomain, contigs, positions, scores,
                   baseline, axisMax, visible, colorsEqual>>

SetAxisMax(value) ==
    /\ Idle
    /\ axisMax' = Plot_set_axisMax(value, Given(baseline))
    /\ call' = [name |-> "axisMax", value |-> value]
    /\ ctx' = <<>>
    /\ UNCHANGED <<ioVars, format, seqLength, width, height, maxMapThicknessProportion, zoomFactor,
                   backboneCenterOffset, bpRange, xDomain, yDomain, contigs, positions, scores,
                   baseline, axisMin, visible, colorsEqual>>

InitAxes ==
    /\ InitLayout({"circular"}, {24}, {<<20, 20>>}, {50})
    /\ scores \in ScoreLists
    /\ positions = [i \in 1..Len(scores) |-> 2 * i]
    /\ \E dataAxisMin \in {Undefined, Given(-1), Given(2)},
          dataAxisMax \in {Undefined, Given(-1), Given(2)},
          dataBaseline \in {Undefined, Given(-3), Given(1)} :
          Plot_constructor([axisMin |-> dataAxisMin, axisMax |-> dataAxisMax,
                            baseline |-> dataBaseline])
    /\ visible = TRUE
    /\ colorsEqual = TRUE

NextAxes ==
    \/ \E value \in AxisValues : SetBaseline(value)
    \/ \E value \in AxisValues : SetAxisMin(value)
    \/ \E value \in AxisValues : SetAxisMax(value)
    \/ Return

SpecAxes == InitAxes /\ [][NextAxes]_vars

(* C17: for a plot with at least one score, after construction and after   *)
(* any sequence of assignments to baseline, axisMin and axisMax,           *)
(* axisMin <= scoreMin, axisMax >= scoreMax and                            *)
(* axisMin <= baseline <= axisMax.                                         *)
C17_AxesEncloseScoresAndBaseline ==
    Len(scores) >= 1 =>
        /\ axisMin <= scoreMin
        /\ axisMax >= scoreMax
        /\ axisMin <= baseline /\ baseline <= axisMax

(* A baseline asked for above the axis was brought back to axisMax, after  *)
(* axisMin had been asked for above the scores                             *)
C17_Witness ==
    /\ call.name = "baseline"
    /\ call.value > axisMax
    /\ baseline = axisMax
    /\ axisMin = scoreMin
    /\ scoreMin < 0

-----------------------------------------------------------------------------
(* Plot.draw and Plot._drawPath: the calls made on the canvas and on the   *)
(* context of the map layer. A radius r is kept as r * RadiusUnit.         *)

RadiusUnit == 2 * (axisMax - axisMin)

(* _keepPoint(score, orientation); orientation "both" stands for undefined *)
keepPoint(score, orientation) ==
    IF orientation = "both" THEN TRUE
    ELSE IF orientation = "positive" /\ score > baseline THEN TRUE
    ELSE IF orientation = "negative" /\ score < baseline THEN TRUE
    ELSE FALSE

(* canvas.path('map', centerOffset, startBp, stopBp, anticlockwise, startType) *)
CanvasPath(centerOffset, startBp, stopBp, anticlockwise, startType) ==
    [op |-> "path", r |-> centerOffset, startBp |-> startBp, stopBp |-> stopBp,
     anticlockwise |-> anticlockwise, startType |-> startType]

(* ctx.moveTo / ctx.lineTo of canvas.pointForBp(bp, centerOffset) *)
ContextPoint(op, bp, centerOffset) == [op |-> op, bp |-> bp, r |-> centerOffset]

RECURSIVE drawPath_walk_noOrigin(_, _, _, _, _, _, _, _, _)
drawPath_walk_noOrigin(indices, k, startIndex, baselineRadius, slotThickness, orientation, savedR, savedPosition, calls) ==
    IF k > Len(indices)
    THEN [calls |-> calls, savedR |-> savedR, savedPosition |-> savedPosition]
    ELSE LET i == indices[k]
             score == scores[i + 1]
             currentPosition == positionAt(i)
             nextR == IF keepPoint(score, orientation)
                      THEN baselineRadius + 2 * (score - baseline) * slotThickness
                      ELSE baselineRadius
         IN  drawPath_walk_noOrigin(indices, k + 1, startIndex, baselineRadius,
                                    slotThickness, orientation, nextR, currentPosition,
                                    calls \o <<CanvasPath(savedR, savedPosition,
                                                          currentPosition, FALSE, "lineTo")>>)

(* The callback of positionsFromRange in _drawPath, run for the indices    *)
(* from the k-th on: the calls made and the saved radius and position      *)
RECURSIVE drawPath_walk(_, _, _, _, _, _, _, _, _)
drawPath_walk(indices, k, startIndex, baselineRadius, slotThickness, orientation, savedR, savedPosition, calls) ==
    IF k > Len(indices)
    THEN [calls |-> calls, savedR |-> savedR, savedPosition |-> savedPosition]
    ELSE LET i == indices[k]
             atOrigin == i = 0 /\ startIndex # 0
             originCalls == IF atOrigin
                            THEN <<CanvasPath(savedR, savedPosition, seqLength, FALSE, "lineTo")>>
                            ELSE <<>>
             fromR == IF atOrigin THEN baselineRadius ELSE savedR
             fromPosition == IF atOrigin THEN 1 ELSE savedPosition
             score == scores[i + 1]
             currentPosition == positionAt(i)
             nextR == IF keepPoint(score, orientation)
                      THEN baselineRadius + 2 * (score - baseline) * slotThickness
                      ELSE baselineRadius
         IN  drawPath_walk(indices, k + 1, startIndex, baselineRadius, slotThickness,
                           orientation, nextR, currentPosition,
                           calls \o originCalls
                                 \o <<CanvasPath(fromR, fromPosition, currentPosition,
                                                 FALSE, "lineTo")>>)

drawPath_fillFirst(slotRadius, slotThickness, fast, rangeStart, rangeStop, color, orientation) ==
    LET startIndex == indexOfValue(rangeStart, FALSE)
        stopIndex0 == indexOfValue(rangeStop, FALSE)
        stopIndex == IF stopIndex0 = 0 /\ rangeStop < positionAt(stopIndex0)
                     THEN Len(positions) - 1
                     ELSE stopIndex0
        startPosition == drawPath_startPosition(rangeStart)
        startScore0 == scores[startIndex + 1]
        startScore == IF keepPoint(startScore0, orientation) THEN startScore0 ELSE baseline
        baselineRadius == (RadiusUnit * slotRadius) - ((axisMax - axisMin) * slotThickness)
                              + 2 * slotThickness * (baseline - axisMin)
        savedR0 == baselineRadius + RadiusUnit * ((startScore - baseline) * slotThickness)
        step == drawPath_step(fast, startPosition, rangeStop)
        walked == drawPath_walk(positionsFromRange(startPosition, rangeStop, step), 1,
                                startIndex, baselineRadius, slotThickness, orientation,
                                savedR0, startPosition, <<>>)
        stopPosition == IF stopIndex = Len(positions) - 1 /\ rangeStop < positionAt(0)
                        THEN seqLength
                        ELSE rangeStop
    IN  <<[op |-> "beginPath"], [op |-> "fill", color |-> color],
          ContextPoint("moveTo", startPosition, baselineRadius)>>
        \o walked.calls
        \o <<CanvasPath(walked.savedR, walked.savedPosition, stopPosition, FALSE, "lineTo"),
             ContextPoint("lineTo", stopPosition, baselineRadius),
             CanvasPath(baselineRadius, stopPosition, startPosition, TRUE, "noMoveTo")>>
drawPath(slotRadius, slotThickness, fast, rangeStart, rangeStop, color, orientation) ==
    LET startIndex == indexOfValue(rangeStart, FALSE)
        stopIndex0 == indexOfValue(rangeStop, FALSE)
        stopIndex == IF stopIndex0 = 0 /\ rangeStop < positionAt(stopIndex0)
                     THEN Len(positions) - 1
                     ELSE stopIndex0
        startPosition == drawPath_startPosition(rangeStart)
        startScore0 == scores[startIndex + 1]
        startScore == IF keepPoint(startScore0, orientation) THEN startScore0 ELSE baseline
        baselineRadius == (RadiusUnit * slotRadius) - ((axisMax - axisMin) * slotThickness)
                              + 2 * slotThickness * (baseline - axisMin)
        savedR0 == baselineRadius + RadiusUnit * ((startScore - baseline) * slotThickness)
        step == drawPath_step(fast, startPosition, rangeStop)
        walked == drawPath_walk(positionsFromRange(startPosition, rangeStop, step), 1,
                                startIndex, baselineRadius, slotThickness, orientation,
                                savedR0, startPosition, <<>>)
        stopPosition == IF stopIndex = Len(positions) - 1 /\ rangeStop < positionAt(0)
                        THEN seqLength
                        ELSE rangeStop
    IN  <<[op |-> "beginPath"], ContextPoint("moveTo", startPosition, baselineRadius)>>
        \o walked.calls
        \o <<CanvasPath(walked.savedR, walked.savedPosition, stopPosition, FALSE, "lineTo"),
             ContextPoint("lineTo", stopPosition, baselineRadius),
             CanvasPath(baselineRadius, stopPosition, startPosition, TRUE, "noMoveTo"),
             [op |-> "fill", color |-> color]>>

Plot_draw(slotRadius, slotThickness, fast, rangeStart, rangeStop) ==
    IF ~visible THEN <<>>
    ELSE IF colorsEqual
    THEN drawPath(slotRadius, slotThickness, fast, rangeStart, rangeStop,
                  "colorPositive", "both")
    ELSE drawPath(slotRadius, slotThickness, fast, rangeStart, rangeStop,
                  "colorPositive", "positive")
         \o drawPath(slotRadius, slotThickness, fast, rangeStart, rangeStop,
                     "colorNegative", "negative")

-----------------------------------------------------------------------------
(* SpecDraw: small plots drawn over every visible range of a sequence of   *)
(* 12 bp                                                                   *)

DrawnPlots == {[positions |-> <<5>>, scores |-> <<1>>],
               [positions |-> <<2, 4>>, scores |-> <<2, 3>>],
               [positions |-> <<3, 5, 6, 9>>, scores |-> <<1, -2, 0, 3>>],
               [positions |-> <<1, 7, 12>>, scores |-> <<-1, 2, -3>>]}

Draw(slotRadius, slotThickness, fast, rangeStart, rangeStop) ==
    /\ Idle
    /\ positions # <<>>
    /\ call' = [name |-> "draw", slotRadius |-> slotRadius,
                slotThickness |-> slotThickness, fast |-> fast,
                rangeStart |-> rangeStart, rangeStop |-> rangeStop]
    /\ ctx' = Plot_draw(slotRadius, slotThickness, fast, rangeStart, rangeStop)
    /\ UNCHANGED layoutVars

InitDraw ==
    /\ InitLayout({"circular", "linear"}, {12}, {<<20, 20>>}, {50})
    /\ \E plot \in DrawnPlots : positions = plot.positions /\ scores = plot.scores
    /\ Plot_constructor([axisMin |-> Undefined, axisMax |-> Undefined,
                         baseline |-> Undefined])
    /\ visible \in BOOLEAN
    /\ colorsEqual \in BOOLEAN

NextDraw ==
    \/ \E rangeStart \in 1..seqLength, rangeStop \in 1..seqLength, fast \in BOOLEAN :
          Draw(8, 4, fast, rangeStart, rangeStop)
    \/ Return

SpecDraw == InitDraw /\ [][NextDraw]_vars

(* C15: when the visible range handed to Plot.draw has zero length         *)
(* (range.start = range.stop), the draw is a no-op: no path segment and no *)
(* fill command is issued on the map layer.                                *)
C15_ZeroLengthRangeDrawsNothing ==
    (call.name = "draw" /\ call.rangeStart = call.rangeStop) =>
        \A i \in 1..Len(ctx) : ctx[i].op \notin {"path", "lineTo", "fill"}

-----------------------------------------------------------------------------
(* Sequence.addContigs and Sequence.removeContigs                          *)

ContigIds(list) == {list[i].id : i \in 1..Len(list)}

(* new Contig(this, data): a contig that is none of the existing ones *)
NewContig(list, length) ==
    [id |-> CHOOSE i \in 1..(Len(list) + 1) :
                /\ i \notin ContigIds(list)
                /\ \A j \in 1..(i - 1) : j \in ContigIds(list),
     length |-> length, visible |-> TRUE, index |-> 0, lengthOffset |-> 0]

(* addContigs(contigData): _contigs after the contigs made from            *)
(* contigData, a list of lengths, have been pushed                         *)
RECURSIVE Sequence_addContigs(_, _)
Sequence_addContigs(list, contigData) ==
    IF contigData = <<>>
    THEN list
    ELSE Sequence_addContigs(Append(list, NewContig(list, Head(contigData))),
                             Tail(contigData))

(* The contigs of `list` that are not in `removed`, in order *)
RECURSIVE WithoutContigs(_, _)
WithoutContigs(list, removed) ==
    IF list = <<>> THEN <<>>
    ELSE IF \E i \in 1..Len(removed) : removed[i].id = Head(list).id
    THEN WithoutContigs(Tail(list), removed)
    ELSE <<Head(list)>> \o WithoutContigs(Tail(list), removed)

Sequence_removeContigs_list_keepNone(list) == list

(* removeContigs(contigs): the contigs to remove once the last of the list *)
(* is popped when the list is as long as _contigs                          *)
Sequence_removeContigs_list(list) ==
    IF Len(list) = Len(contigs) /\ list # <<>>
    THEN SubSeq(list, 1, Len(list) - 1)
    ELSE list

(* The lengths of the visible contigs among the first n of the list, added *)
RECURSIVE visibleLength(_, _)
visibleLength(list, n) ==
    IF n = 0 THEN 0
    ELSE visibleLength(list, n - 1) + (IF list[n].visible THEN list[n].length ELSE 0)

Sequence_updateMapContig_hiddenCounted(list) ==
    IF Len(list) = 1
    THEN <<[list[1] EXCEPT !.index = 1, !.lengthOffset = 0]>>
    ELSE LET shown == [j \in 1..Len(list) |-> [list[j] EXCEPT !.visible = TRUE]]
         IN  [i \in 1..Len(list) |->
                 [list[i] EXCEPT !.index = i,
                                 !.lengthOffset = visibleLength(shown, i - 1)]]

(* updateMapContig(): the contigs with their _index and length offset      *)
(* brought up to date                                                      *)
Sequence_updateMapContig(list) ==
    IF Len(list) = 1
    THEN <<[list[1] EXCEPT !.index = 1, !.lengthOffset = 0]>>
    ELSE [i \in 1..Len(list) |->
             IF list[i].visible
             THEN [list[i] EXCEPT !.index = i,
                                  !.lengthOffset = visibleLength(list, i - 1)]
             ELSE [list[i] EXCEPT !.index = i]]

(* updateMapContig(): the length of the map contig, the only contig or the *)
(* visible contigs joined                                                  *)
mapContigLength(list) ==
    IF Len(list) = 1 THEN list[1].length ELSE visibleLength(list, Len(list))

(* CGArray.move(oldIndex, newIndex), the indices 0-based *)
CGArray_move(list, oldIndex, newIndex) ==
    LET moved == list[oldIndex + 1]
        rest == [i \in 1..(Len(list) - 1) |-> IF i <= oldIndex THEN list[i] ELSE list[i + 1]]
    IN  [i \in 1..Len(list) |->
            IF i <= newIndex THEN rest[i]
            ELSE IF i = newIndex + 1 THEN moved
            ELSE rest[i - 1]]

(* viewer.updateRecords(contigs, {visible}): the contigs of the list given *)
(* the value                                                               *)
updateRecords(list, updated, value) ==
    [i \in 1..Len(list) |->
        IF list[i].id \in ContigIds(updated)
        THEN [list[i] EXCEPT !.visible = value]
        ELSE list[i]]

(* viewer.layout.updateScales() after the sequence length changed: the bp  *)
(* scale takes the new domain and the range of its delegate                *)
Layout_updateScales(length) ==
    IF format = "circular"
    THEN <<-length, (3 * length) - 4>>
    ELSE bpRange

-----------------------------------------------------------------------------
(* SpecContigs: contigs added to and removed from the sequence             *)

MaxContigs == 3

ContigLength == 12

(* The lists of distinct contigs of the sequence *)
ContigLists ==
    LET all == {contigs[i] : i \in 1..Len(contigs)}
    IN  {list \in UNION {[1..n -> all] : n \in 0..Len(contigs)} :
            \A i, j \in 1..Len(list) : i # j => list[i] # list[j]}

AddContigs(contigData) ==
    /\ Idle
    /\ Len(contigs) + Len(contigData) <= MaxContigs
    /\ contigs' = Sequence_updateMapContig(Sequence_addContigs(contigs, contigData))
    /\ seqLength' = mapContigLength(contigs')
    /\ bpRange' = Layout_updateScales(seqLength')
    /\ call' = [name |-> "addContigs", before |-> contigs,
                event |-> [name |-> "contigs-add",
                           contigs |-> SubSeq(contigs', Len(contigs) + 1, Len(contigs'))]]
    /\ ctx' = <<>>
    /\ UNCHANGED <<ioVars, format, width, height, maxMapThicknessProportion, zoomFactor,
                   backboneCenterOffset, xDomain, yDomain, plotVars>>

RemoveContigs(list) ==
    /\ Idle
    /\ LET removed == Sequence_removeContigs_list(list)
       IN  /\ contigs' = IF Len(removed) > 0
                         THEN Sequence_updateMapContig(WithoutContigs(contigs, removed))
                         ELSE contigs
           /\ call' = [name |-> "removeContigs", contigs |-> list, before |-> contigs,
                       event |-> [name |-> "contigs-remove", contigs |-> removed]]
    /\ seqLength' = IF Len(Sequence_removeContigs_list(list)) > 0
                    THEN mapContigLength(contigs')
                    ELSE seqLength
    /\ bpRange' = IF Len(Sequence_removeContigs_list(list)) > 0
                  THEN Layout_updateScales(seqLength')
                  ELSE bpRange
    /\ ctx' = <<>>
    /\ UNCHANGED <<ioVars, format, width, height, maxMapThicknessProportion, zoomFactor,
                   backboneCenterOffset, xDomain, yDomain, plotVars>>

MoveContig(oldIndex, newIndex) ==
    /\ Idle
    /\ contigs' = Sequence_updateMapContig(CGArray_move(contigs, oldIndex, newIndex))
    /\ seqLength' = mapContigLength(contigs')
    /\ bpRange' = Layout_updateScales(seqLength')
    /\ call' = [name |-> "moveContig", oldIndex |-> oldIndex, newIndex |-> newIndex,
                before |-> contigs,
                event |-> [name |-> "contigs-moved", contigs |-> <<>>]]
    /\ ctx' = <<>>
    /\ UNCHANGED <<ioVars, format, width, height, maxMapThicknessProportion, zoomFactor,
                   backboneCenterOffset, xDomain, yDomain, plotVars>>

(* updateContigs(contigs, {visible: value}) *)
UpdateContigs(list, value) ==
    /\ Idle
    /\ contigs' = Sequence_updateMapContig(updateRecords(contigs, list, value))
    /\ seqLength' = mapContigLength(contigs')
    /\ bpRange' = Layout_updateScales(seqLength')
    /\ call' = [name |-> "updateContigs", contigs |-> list, visible |-> value,
                before |-> contigs,
                event |-> [name |-> "contigs-update", contigs |-> list]]
    /\ ctx' = <<>>
    /\ UNCHANGED <<ioVars, format, width, height, maxMapThicknessProportion, zoomFactor,
                   backboneCenterOffset, xDomain, yDomain, plotVars>>

InitContigs ==
    /\ InitLayout({"circular", "linear"}, {ContigLength}, {<<20, 20>>}, {50})
    /\ NoPlot

NextContigs ==
    \/ \E contigData \in {<<>>, <<ContigLength>>, <<ContigLength, ContigLength>>} :
          AddContigs(contigData)
    \/ \E list \in ContigLists : RemoveContigs(list)
    \/ Return

SpecContigs == InitContigs /\ [][NextContigs]_vars

(* C16: after any sequence of addContigs and removeContigs calls in which  *)
(* each removeContigs argument is a list of distinct contigs currently in  *)
(* the sequence, the sequence still holds at least one contig; a call      *)
(* asking to remove every contig removes all but the last contig of the    *)
(* passed list; and the 'contigs-remove' event carries exactly the contigs *)
(* that were removed.                                                      *)
C16_LastContigKept ==
    /\ Len(contigs) >= 1
    /\ call.name = "removeContigs" =>
          /\ Len(call.contigs) = Len(call.before) =>
                /\ Len(contigs) = 1
                /\ contigs[1].id = call.contigs[Len(call.contigs)].id
          /\ ContigIds(call.event.contigs) = ContigIds(call.before) \ ContigIds(contigs)
          /\ [i \in 1..Len(contigs) |-> contigs[i].id]
                = [i \in 1..Len(WithoutContigs(call.before, call.event.contigs)) |->
                      WithoutContigs(call.before, call.event.contigs)[i].id]
          /\ \A i, j \in 1..Len(call.event.contigs) :
                i # j => call.event.contigs[i] # call.event.contigs[j]

(* Every one of three or more contigs was asked to be removed, the last of *)
(* the list not being the last of the sequence                             *)
C16_Witness ==
    /\ call.name = "removeContigs"
    /\ Len(call.before) >= 3
    /\ Len(call.contigs) = Len(call.before)
    /\ call.contigs[Len(call.contigs)] # call.before[Len(call.before)]
    /\ Len(contigs) = 1

(* SpecOrder: contigs added, removed one at a time, moved, hidden and shown *)
NextOrder ==
    \/ \E contigData \in {<<>>, <<ContigLength>>, <<ContigLength, ContigLength>>} :
          AddContigs(contigData)
    \/ \E i \in 1..Len(contigs) : RemoveContigs(<<contigs[i]>>)
    \/ \E oldIndex, newIndex \in 0..(Len(contigs) - 1) :
          oldIndex # newIndex /\ MoveContig(oldIndex, newIndex)
    \/ \E i \in 1..Len(contigs), value \in BOOLEAN : UpdateContigs(<<contigs[i]>>, value)
    \/ Return

SpecOrder == InitContigs /\ [][NextOrder]_vars

(* C26: after any sequence of addContigs, removeContigs, moveContig and    *)
(* contig visibility updates that leaves more than one contig, the         *)
(* sequence length equals the sum of the lengths of the visible contigs,   *)
(* each visible contig's length offset equals the sum of the lengths of    *)
(* the visible contigs before it in array order, and the contigs' _index   *)
(* values are 1..n in array order.                                         *)
C26_MapContigOfVisibleContigs ==
    Len(contigs) > 1 =>
        /\ seqLength = visibleLength(contigs, Len(contigs))
        /\ \A i \in 1..Len(contigs) :
              /\ contigs[i].index = i
              /\ contigs[i].visible =>
                    contigs[i].lengthOffset = visibleLength(contigs, i - 1)

(* A contig was moved behind a hidden contig that has visible contigs on   *)
(* both sides                                                              *)
C26_Witness ==
    /\ call.name = "moveContig"
    /\ call.oldIndex # call.newIndex
    /\ Len(contigs) >= 3
    /\ contigs[1].visible /\ ~contigs[2].visible /\ contigs[3].visible
    /\ contigs[3].id = call.before[call.oldIndex + 1].id
    /\ contigs[3].lengthOffset = contigs[1].length


-----------------------------------------------------------------------------
(* IO.updateJSON: version strings are sequences of characters              *)

Digits == <<"0", "1", "2", "3", "4", "5", "6", "7", "8", "9">>

IsDigit(c) == \E d \in 1..Len(Digits) : Digits[d] = c

DigitValue(c) == (CHOOSE d \in 1..Len(Digits) : Digits[d] = c) - 1

(* \d+ : the number of digits of `string` from index `from` on *)
RECURSIVE digitRun(_, _)
digitRun(string, from) ==
    IF from <= Len(string) /\ IsDigit(string[from])
    THEN 1 + digitRun(string, from + 1)
    ELSE 0

(* Number(digits) *)
RECURSIVE NumberOf(_)
NumberOf(digits) ==
    IF digits = <<>> THEN 0
    ELSE (10 * NumberOf(SubSeq(digits, 1, Len(digits) - 1)))
         + DigitValue(digits[Len(digits)])

(* parseVersion(version): version.match(/^(\d+)\.(\d+)/), a failed match  *)
(* throwing "Can not read cgview version"                                  *)
parseVersion(version) ==
    LET majorLength == digitRun(version, 1)
        minorLength == digitRun(version, majorLength + 2)
    IN  IF /\ majorLength >= 1
           /\ majorLength + 1 <= Len(version)
           /\ version[majorLength + 1] = "."
           /\ minorLength >= 1
        THEN [ok |-> TRUE, string |-> version,
              major |-> NumberOf(SubSeq(version, 1, majorLength)),
              minor |-> NumberOf(SubSeq(version, majorLength + 2,
                                        majorLength + 1 + minorLength))]
        ELSE [ok |-> FALSE, string |-> version, major |-> 0, minor |-> 0]

(* data.version after each migration *)
IO_updateVersion_0_1(version) == <<"1", ".", "1", ".", "0">>

IO_updateVersion_0_2(version) == <<"1", ".", "1", ".", "0">>

IO_updateVersion_1_0(version) == <<"1", ".", "1", ".", "0">>

IO_updateVersion_1_4_versionKept(version) == version

IO_updateVersion_1_4(version) == <<"1", ".", "5", ".", "0">>

(* One invocation of updateJSON on data of the given version, under the    *)
(* package version currentVersion: it throws, returns the data, or calls   *)
(* itself on the migrated data                                             *)
IO_updateJSON(dataVersion, currentVersion) ==
    LET version == parseVersion(dataVersion)
        lastestVersion == parseVersion(currentVersion)
        recurses(migrated) ==
            [outcome |-> "recurses", version |-> migrated, error |-> ""]
    IN  IF ~version.ok
        THEN [outcome |-> "throws", version |-> dataVersion,
              error |-> "Can not read cgview version"]
        ELSE IF version.string = <<"0", ".", "1">>
        THEN recurses(IO_updateVersion_0_1(dataVersion))
        ELSE IF version.string = <<"0", ".", "2">>
        THEN recurses(IO_updateVersion_0_2(dataVersion))
        ELSE IF version.string = <<"1", ".", "0", ".", "0">>
        THEN recurses(IO_updateVersion_1_0(dataVersion))
        ELSE IF version.major <= 1 /\ version.minor <= 4
        THEN recurses(IO_updateVersion_1_4(dataVersion))
        ELSE IF version.string = lastestVersion.string
        THEN [outcome |-> "returns", version |-> dataVersion, error |-> ""]
        ELSE IF /\ version.major <= lastestVersion.major
                /\ version.minor <= lastestVersion.minor
        THEN [outcome |-> "returns", version |-> currentVersion, error |-> ""]
        ELSE [outcome |-> "throws", version |-> dataVersion,
              error |-> "Unknown cgview version"]

-----------------------------------------------------------------------------
(* SpecUpdateJSON: updateJSON over version strings                         *)

MaxVersionLength == 3

VersionChars == {"0", "1", "2", "4", "5", "7", "9", ".", "b"}

(* Every string of up to MaxVersionLength characters, and the versions of  *)
(* the releases                                                            *)
VersionStrings ==
    UNION {[1..n -> VersionChars] : n \in 0..MaxVersionLength}
    \cup {<<"1", ".", "0", ".", "0">>, <<"1", ".", "1", ".", "0">>,
          <<"1", ".", "4", ".", "9">>, <<"1", ".", "5", ".", "0">>,
          <<"1", ".", "7", ".", "0">>, <<"1", ".", "7", ".", "1">>,
          <<"1", ".", "1", "0", ".", "0">>, <<"2", ".", "0", ".", "0">>,
          <<"0", ".", "1", ".", "5">>, <<"1", ".", "7", "-", "b">>,
          <<"1", "0", ".", "1">>, <<"0", "1", ".", "0", "4">>}

(* version of package.json in the builds checked *)
CurrentVersions ==
    {<<"1", ".", "7", ".", "0">>, <<"1", ".", "7", ".", "1">>,
     <<"2", ".", "0", ".", "0">>}

UpdateJSON(dataVersion, currentVersion) ==
    /\ Idle
    /\ LET result == IO_updateJSON(dataVersion, currentVersion)
       IN  call' = [name |-> "updateJSON", input |-> dataVersion,
                    current |-> currentVersion, calls |-> 1,
                    from |-> dataVersion, outcome |-> result.outcome,
                    version |-> result.version, error |-> result.error]
    /\ ctx' = <<>>
    /\ UNCHANGED layoutVars

(* return this.updateJSON({cgview: data}) *)
UpdateJSONAgain ==
    /\ call.name = "updateJSON"
    /\ call.outcome = "recurses"
    /\ LET result == IO_updateJSON(call.version, call.current)
       IN  call' = [call EXCEPT !.calls = @ + 1, !.from = call.version,
                                !.outcome = result.outcome,
                                !.version = result.version,
                                !.error = result.error]
    /\ ctx' = <<>>
    /\ UNCHANGED layoutVars

UpdateJSONReturn ==
    /\ ~Idle
    /\ call.outcome # "recurses"
    /\ Return

InitUpdateJSON ==
    /\ InitLayout({"circular"}, {12}, {<<20, 20>>}, {50})
    /\ NoPlot

NextUpdateJSON ==
    \/ \E dataVersion \in VersionStrings, currentVersion \in CurrentVersions :
          UpdateJSON(dataVersion, currentVersion)
    \/ UpdateJSONAgain
    \/ UpdateJSONReturn

(* The recursive call is made as soon as the migration returns *)
SpecUpdateJSON ==
    InitUpdateJSON /\ [][NextUpdateJSON]_vars /\ WF_vars(UpdateJSONAgain)

(* The version of a is below that of b *)
VersionBelow(a, b) ==
    LET va == parseVersion(a)
        vb == parseVersion(b)
    IN  va.major < vb.major \/ (va.major = vb.major /\ va.minor < vb.minor)

-----------------------------------------------------------------------------
(* SpecVisible: the circular delegate asked for the visible range of       *)
(* circles that miss, cross or surround a panned canvas                    *)

VisibleOffsets == {0, 3, 9, 10, 11, 12, 14, 15, 17, 20, 30, 40}

InitVisible ==
    /\ InitLayout({"circular"}, LayoutLengths, CanvasSizes, Proportions)
    /\ NoPlot

NextVisible ==
    \/ \E dx \in {-PanStep, 0, PanStep}, dy \in {-PanStep, 0, PanStep} :
          (dx # 0 \/ dy # 0) /\ Translate(dx, dy)
    \/ \E centerOffset \in VisibleOffsets, margin \in 0..MaxMargin, float \in BOOLEAN :
          CircularVisibleRangeForCenterOffset(centerOffset, margin, float)
    \/ Return

SpecVisible == InitVisible /\ [][NextVisible]_vars

(* The bp values of the crossings of the circle asked for *)
CallRanges == visibleRangesForRadius(call.centerOffset, call.margin, call.float)

CallRangeDen == IF call.float THEN scale_bp_invert_den(1) ELSE 1

(* C19: circular visibleRangeForCenterOffset distinguishes its cases:      *)
(* exactly 2 intersection bp values give the range [first, second]; more   *)
(* than 2 give the envelope [first, last]; fewer than 2 give undefined     *)
(* exactly when centerOffset - margin exceeds the maximum visible radius   *)
(* or centerOffset + margin is below the minimum visible radius, and the   *)
(* whole sequence 1..length otherwise.                                     *)
C19_CasesOfCrossings ==
    (call.name = "visibleRangeForCenterOffset" /\ format = "circular") =>
        /\ Len(CallRanges) = 2 =>
              call.result = CGRange(CallRanges[1], CallRanges[2], CallRangeDen)
        /\ Len(CallRanges) > 2 =>
              call.result = CGRange(CallRanges[1], CallRanges[Len(CallRanges)],
                                    CallRangeDen)
        /\ Len(CallRanges) < 2 =>
              /\ ~call.result.defined <=>
                    \/ GreaterThanRoot(call.centerOffset - call.margin,
                                       maximumVisibleRadiusSq)
                    \/ LessThanRoot(call.centerOffset + call.margin,
                                    minimumVisibleRadiusSq)
              /\ call.result.defined => call.result = CGRange(1, seqLength, 1)

(* A circle crossing the canvas more than twice, its last crossing at      *)
(* another bp than its second                                              *)
C19_Witness ==
    /\ call.name = "visibleRangeForCenterOffset"
    /\ format = "circular"
    /\ Len(CallRanges) > 2
    /\ CallRanges[2] # CallRanges[Len(CallRanges)]
    /\ call.result.defined
    /\ call.result.stop = CallRanges[Len(CallRanges)]

-----------------------------------------------------------------------------
(* The circular bp-scale range under zoom changes (SpecLayout)             *)

(* C20: in circular mode, once adjustBpScaleRange(true) has run for length *)
(* L, any later sequence of zoom changes and adjustBpScaleRange() calls    *)
(* leaves the bp-scale range at [-pi/2, 3pi/2 - 2pi/L]: bp 1 maps to the   *)
(* top of the circle, angles increase clockwise, bp L stops exactly one    *)
(* bp-step short of a full revolution, and distinct bp in [1, L] map to    *)
(* distinct angles modulo 2pi.                                             *)
C20_CircularRangeFixed ==
    format = "circular" =>
        /\ bpRange = <<-(PI \div 2), ((3 * PI) \div 2) - ((2 * PI) \div seqLength)>>
        /\ radians(1) = -(PI \div 2)
        /\ LayoutCircular_mapPointForBp(1, 1) = [x |-> 0, y |-> TrigScale]
        /\ \A bp \in 1..(seqLength - 1) :
              radians(bp + 1) - radians(bp) = (2 * PI) \div seqLength
        /\ LayoutCircular_mapPointForBp(2, 1).x > 0
        /\ radians(seqLength) + ((2 * PI) \div seqLength) = radians(1) + 2 * PI
        /\ \A a, b \in 1..seqLength :
              a # b => (radians(a) - radians(b)) % (2 * PI) # 0

(* adjustBpScaleRange() ran without initialize on a zoomed circular map *)
C20_Witness ==
    /\ format = "circular"
    /\ zoomFactor > 1
    /\ call.name = "adjustBpScaleRange"
    /\ ~call.initialize
    /\ bpRange = <<-seqLength, (3 * seqLength) - 4>>

-----------------------------------------------------------------------------
(* The passes of Plot.draw (SpecDraw)                                      *)

(* The baseline radius of the draw called and the radius of a score, both  *)
(* times RadiusUnit                                                        *)
CallBaselineRadius ==
    (RadiusUnit * call.slotRadius) - ((axisMax - axisMin) * call.slotThickness)
        + 2 * call.slotThickness * (baseline - axisMin)

OwnRadius(i) == CallBaselineRadius + 2 * (scores[i + 1] - baseline) * call.slotThickness

(* The number of beginPath among the first k commands: the pass of the     *)
(* k-th command                                                            *)
PassOf(k) == Cardinality({j \in 1..k : ctx[j].op = "beginPath"})

(* The k-th command is a segment of the plot line *)
IsSegment(k) == ctx[k].op = "path" /\ ~ctx[k].anticlockwise

(* The indices of the points that the segment at k leaves from: the point  *)
(* at or before the range start for the first segment of a pass, the point *)
(* the segment before it ended on otherwise                                *)
SourcesOf(k) ==
    IF ctx[k - 1].op = "moveTo"
    THEN {indexOfValue(call.rangeStart, FALSE)}
    ELSE IF IsSegment(k - 1) /\ ctx[k - 1].stopBp = ctx[k].startBp
    THEN {i \in 0..(Len(positions) - 1) : positionAt(i) = ctx[k].startBp}
    ELSE {}

(* The radius the claim gives the point i in a pass *)
ClaimedRadius(pass, i) ==
    IF colorsEqual THEN OwnRadius(i)
    ELSE IF pass = 1 /\ scores[i + 1] > baseline THEN OwnRadius(i)
    ELSE IF pass = 2 /\ scores[i + 1] < baseline THEN OwnRadius(i)
    ELSE CallBaselineRadius

Fills == SelectSeq(ctx, LAMBDA command : command.op = "fill")

(* C21: when the positive and negative legend colours differ, Plot.draw    *)
(* runs the path exactly twice (positive first, then negative) and every   *)
(* point with score # baseline is kept at its own radius in exactly one of *)
(* the two passes (score > baseline only in the positive pass, score <     *)
(* baseline only in the negative pass), while a point with score =         *)
(* baseline is pinned to the baseline radius in both; when the colours are *)
(* equal the path is run exactly once and every point is kept.             *)
C21_EachPointInOnePass ==
    (call.name = "draw" /\ visible) =>
        /\ PassOf(Len(ctx)) = IF colorsEqual THEN 1 ELSE 2
        /\ Fills = IF colorsEqual
                   THEN <<[op |-> "fill", color |-> "colorPositive"]>>
                   ELSE <<[op |-> "fill", color |-> "colorPositive"],
                          [op |-> "fill", color |-> "colorNegative"]>>
        /\ \A k \in 2..Len(ctx) :
              IsSegment(k) =>
                 \A i \in SourcesOf(k) : ctx[k].r = ClaimedRadius(PassOf(k), i)

-----------------------------------------------------------------------------
(* The walk of _drawPath through the origin (SpecDraw)                     *)

(* The indices the walk of the draw called visits, in order *)
CallWalk ==
    LET startPosition == drawPath_startPosition(call.rangeStart)
    IN  positionsFromRange(startPosition, call.rangeStop,
                           drawPath_step(call.fast, startPosition, call.rangeStop))

(* The range wraps and the walk visits points on both sides of the origin *)
WalkThroughOrigin ==
    /\ call.rangeStop < call.rangeStart
    /\ \E a, b \in 1..Len(CallWalk) :
          /\ positionAt(CallWalk[a]) >= call.rangeStart
          /\ positionAt(CallWalk[b]) <= call.rangeStop

(* The k-th command is a segment to sequenceLength and the next starts     *)
(* over from bp 1                                                          *)
IsBridge(k) ==
    /\ k < Len(ctx)
    /\ IsSegment(k) /\ ctx[k].stopBp = seqLength
    /\ IsSegment(k + 1) /\ ctx[k + 1].startBp = 1

Bridges(pass) == {k \in 1..Len(ctx) : PassOf(k) = pass /\ IsBridge(k)}

(* C22: in Plot._drawPath, whenever the visible range wraps through the    *)
(* origin (range.stop < range.start) and the walk over positions visits    *)
(* points on both sides of the origin, exactly one extra segment from the  *)
(* saved position to sequenceLength is emitted, immediately before the     *)
(* first point after the origin is processed, and the saved position and   *)
(* radius are reset to bp 1 and the baseline radius; when the visible      *)
(* range does not wrap, no such bridging segment is emitted.               *)
C22_OneBridgeThroughOrigin ==
    (call.name = "draw" /\ visible) =>
        \A pass \in 1..PassOf(Len(ctx)) :
            /\ WalkThroughOrigin =>
                  /\ Cardinality(Bridges(pass)) = 1
                  /\ \A k \in Bridges(pass) :
                        /\ ctx[k + 1] = CanvasPath(CallBaselineRadius, 1, positionAt(0),
                                                   FALSE, "lineTo")
                        /\ positionAt(0) <= call.rangeStop
                        /\ IsSegment(k - 1)
                        /\ ctx[k].startBp = ctx[k - 1].stopBp
                        /\ \A j \in 1..(k - 1) :
                              (PassOf(j) = pass /\ IsSegment(j)) =>
                                 ctx[j].stopBp >= call.rangeStart
                        /\ \A j \in (k + 1)..Len(ctx) :
                              (PassOf(j) = pass /\ IsSegment(j)) =>
                                 ctx[j].stopBp <= call.rangeStop
            /\ call.rangeStop >= call.rangeStart => Bridges(pass) = {}

(* A wrapped range walked through the origin, the line bridged to          *)
(* sequenceLength at a radius off the baseline                             *)
C22_Witness ==
    /\ call.name = "draw" /\ visible
    /\ WalkThroughOrigin
    /\ \E k \in Bridges(1) :
          /\ ctx[k].r # CallBaselineRadius
          /\ ctx[k].startBp < seqLength
          /\ ctx[k + 1].stopBp > 1

-----------------------------------------------------------------------------
(* SpecWalk: positionsFromRange over every range of a sequence of 12 bp,   *)
(* with steps from 1 on                                                    *)

MaxStep == 4

WalkedPlots == {<<5>>, <<2, 4>>, <<3, 5, 6, 9>>, <<1, 7, 12>>,
                <<2, 3, 5, 6, 8, 9, 11>>, <<1, 2, 3, 5, 6, 7, 8, 10, 11, 12>>}

PositionsFromRangeWithStep(startValue, stopValue, step) ==
    /\ Idle
    /\ positions # <<>>
    /\ call' = [name |-> "positionsFromRange", startValue |-> startValue,
                stopValue |-> stopValue, step |-> step,
                indices |-> positionsFromRange(startValue, stopValue, step),
                stepNotFast |-> drawPath_step(FALSE, startValue, stopValue)]
    /\ ctx' = <<>>
    /\ UNCHANGED layoutVars

InitWalk ==
    /\ InitLayout({"circular", "linear"}, {12}, {<<20, 20>>}, {50})
    /\ positions \in WalkedPlots
    /\ scores = [i \in 1..Len(positions) |-> 1]
    /\ baseline = 0 /\ axisMin = 0 /\ axisMax = 1
    /\ visible = TRUE
    /\ colorsEqual = TRUE

NextWalk ==
    \/ \E startValue \in 1..seqLength, stopValue \in 1..seqLength, step \in 1..MaxStep :
          PositionsFromRangeWithStep(startValue, stopValue, step)
    \/ Return

SpecWalk == InitWalk /\ [][NextWalk]_vars

(* The position lies inside the range, wrapped or not *)
InsideRange(position, startValue, stopValue) ==
    IF stopValue >= startValue
    THEN position >= startValue /\ position <= stopValue
    ELSE position >= startValue \/ position <= stopValue

(* How far along the range from its start the position lies *)
AlongRange(position, startValue) ==
    IF position >= startValue
    THEN position - startValue
    ELSE (position - startValue) + seqLength

(* C23: when fast is false the step is 1 and the walk plots every point:   *)
(* positionsFromRange(start, stop, 1, cb) invokes cb exactly once for each *)
(* index i whose position lies inside the visible range [start, stop] (for *)
(* a wrapped range: position >= start or position <= stop) and for no      *)
(* other index, in the order the positions occur along the range (indices  *)
(* after the origin last).                                                 *)
C23_EveryPointOnceInOrder ==
    call.name = "positionsFromRange" =>
        /\ call.stepNotFast = 1
        /\ call.step = 1 =>
              /\ {call.indices[k] : k \in 1..Len(call.indices)}
                    = {i \in 0..(Len(positions) - 1) :
                          InsideRange(positionAt(i), call.startValue, call.stopValue)}
              /\ \A a, b \in 1..Len(call.indices) :
                    a < b => AlongRange(positionAt(call.indices[a]), call.startValue)
                                < AlongRange(positionAt(call.indices[b]), call.startValue)

(* A wrapped range walked with step 1 over points on both sides of the     *)
(* origin, some point left out                                             *)
C23_Witness ==
    /\ call.name = "positionsFromRange"
    /\ call.step = 1
    /\ call.stopValue < call.startValue
    /\ Len(call.indices) >= 3
    /\ Len(call.indices) < Len(positions)
    /\ call.indices[1] > call.indices[Len(call.indices)]

(* The index of the first position a walk from startValue could visit *)
UpperIndex(startValue) == indexOfValue(startValue, TRUE)

(* Two start values lie between the same two multiples of step, on the     *)
(* same side of stopValue                                                  *)
BetweenSameMultiples(v, w, stopValue, step) ==
    /\ UpperIndex(v) % step # 0
    /\ UpperIndex(w) % step # 0
    /\ UpperIndex(v) \div step = UpperIndex(w) \div step
    /\ (stopValue >= v) = (stopValue >= w)

(* C24: in positionsFromRange with step > 1, every index passed to the     *)
(* callback is a multiple of step and lies within the array bounds, for    *)
(* wrapped and unwrapped ranges alike, so that the set of plotted indices  *)
(* does not change as the start of the visible range moves between two     *)
(* multiples of step.                                                      *)
C24_IndicesMultiplesOfStep ==
    (call.name = "positionsFromRange" /\ call.step > 1) =>
        /\ \A k \in 1..Len(call.indices) :
              /\ call.indices[k] % call.step = 0
              /\ hasPosition(call.indices[k])
        /\ \A v \in 1..seqLength :
              BetweenSameMultiples(v, call.startValue, call.stopValue, call.step) =>
                 positionsFromRange(v, call.stopValue, call.step) = call.indices

(* A walk with a step above 1 that starts between two multiples of the     *)
(* step, as does the walk from another start value, and visits points      *)
C24_Witness ==
    /\ call.name = "positionsFromRange"
    /\ call.step > 1
    /\ Len(call.indices) >= 2
    /\ call.indices[1] > 0
    /\ \E v \in 1..seqLength :
          /\ v # call.startValue
          /\ UpperIndex(v) # UpperIndex(call.startValue)
          /\ BetweenSameMultiples(v, call.startValue, call.stopValue, call.step)

-----------------------------------------------------------------------------
(* The order of the commands of _drawPath (SpecDraw)                       *)

(* The commands of a pass: from its beginPath to the command before the    *)
(* next beginPath                                                          *)
PassCommands(pass) ==
    LET ks == {k \in 1..Len(ctx) : PassOf(k) = pass}
        first == CHOOSE k \in ks : \A j \in ks : k <= j
    IN  [k \in 1..Cardinality(ks) |-> ctx[first + k - 1]]

(* C25: every Plot._drawPath call issues its drawing commands in a fixed   *)
(* order: beginPath first, then a moveTo to the baseline point at the      *)
(* start position, then the point segments, then a lineTo to the baseline  *)
(* point at the stop position followed by the anticlockwise baseline       *)
(* return from stop to start, and exactly one fill as the last command; no *)
(* second beginPath or fill occurs within one call.                        *)
C25_CommandsInOrder ==
    (call.name = "draw" /\ visible) =>
        /\ ctx[1].op = "beginPath"
        /\ \A pass \in 1..PassOf(Len(ctx)) :
              LET c == PassCommands(pass)
                  n == Len(c)
                  startPosition == drawPath_startPosition(call.rangeStart)
              IN  /\ n >= 6
                  /\ c[1].op = "beginPath"
                  /\ c[2] = ContextPoint("moveTo", startPosition, CallBaselineRadius)
                  /\ \A k \in 3..(n - 3) :
                        /\ c[k].op = "path"
                        /\ ~c[k].anticlockwise
                        /\ c[k].startType = "lineTo"
                        /\ c[k].startBp = IF k = 3 THEN startPosition
                                          ELSE IF c[k - 1].stopBp = seqLength
                                                  /\ c[k].startBp = 1
                                          THEN 1
                                          ELSE c[k - 1].stopBp
                  /\ c[n - 2].op = "lineTo"
                  /\ c[n - 2].bp \in {call.rangeStop, seqLength}
                  /\ c[n - 2].r = CallBaselineRadius
                  /\ c[n - 3].stopBp = c[n - 2].bp
                  /\ c[n - 1] = CanvasPath(CallBaselineRadius, c[n - 2].bp, startPosition,
                                           TRUE, "noMoveTo")
                  /\ c[n].op = "fill"
                  /\ \A k \in 2..(n - 1) : c[k].op \notin {"beginPath", "fill"}

(* Two passes over a range that holds points of both signs *)
C25_Witness ==
    /\ call.name = "draw" /\ visible
    /\ PassOf(Len(ctx)) = 2
    /\ Len(PassCommands(1)) >= 8
    /\ \E j, k \in 1..Len(ctx) :
          /\ IsSegment(j) /\ ctx[j].r > CallBaselineRadius
          /\ IsSegment(k) /\ ctx[k].r < CallBaselineRadius

-----------------------------------------------------------------------------
(* SpecLoad: IO.loadJSON over JSON given as an object or as text           *)

(* updateJSON(data) with the calls it makes on itself: the version the     *)
(* data ends with, or the error thrown                                     *)
RECURSIVE IO_updateJSON_migrated(_, _)
IO_updateJSON_migrated(dataVersion, currentVersion) ==
    LET result == IO_updateJSON(dataVersion, currentVersion)
    IN  IF result.outcome = "recurses"
        THEN IO_updateJSON_migrated(result.version, currentVersion)
        ELSE result

(* new Sequence(viewer, options): options of null is not replaced by the   *)
(* default {} and options.color throws; options left out gives the contig *)
(* of length 1000 of createMapContig                                       *)
Sequence_constructor(options) ==
    IF options.kind = "null"
    THEN [outcome |-> "throws", error |-> "TypeError", contigs |-> <<>>]
    ELSE [outcome |-> "returns", error |-> "",
          contigs |-> Sequence_updateMapContig(Sequence_addContigs(<<>>,
                        <<IF options.kind = "undefined" \/ options.length = 0
                          THEN 1000 ELSE options.length>>))]

(* _loadJSON(json) up to the first throw: where it stopped, and            *)
(* viewer._loading there                                                   *)
IO__loadJSON(json, currentVersion, loading) ==
    LET updated == IO_updateJSON_migrated(json.version, currentVersion)
        sequence == Sequence_constructor(json.sequence)
        throws(error, flag) ==
            [outcome |-> "throws", error |-> error, loading |-> flag,
             contigs |-> <<>>]
    IN  IF json.text = "malformed"
        THEN throws("SyntaxError", loading)
        ELSE IF ~json.cgview
        THEN throws("No 'cgview' property found in JSON.", loading)
        ELSE IF updated.outcome = "throws"
        THEN throws(updated.error, loading)
        ELSE IF sequence.outcome = "throws"
        THEN throws(sequence.error, TRUE)
        ELSE [outcome |-> "returns", error |-> "", loading |-> FALSE,
              contigs |-> sequence.contigs]

(* loadJSON(json): the catch writes the message on the debug layer and     *)
(* throws the error again; it assigns nothing of the viewer                *)
IO_loadJSON(json, currentVersion, loading) ==
    IO__loadJSON(json, currentVersion, loading)

(* JSON: text or an object, with or without the cgview property, its       *)
(* version, and the sequence property                                      *)
LoadVersions ==
    {<<"1", ".", "7", ".", "0">>, <<"1", ".", "0", ".", "0">>, <<"0", ".", "1">>,
     <<"1", ".", "4", ".", "9">>, <<"9", ".", "9">>, <<"b">>}

LoadSequences ==
    {[kind |-> "null", length |-> 0], [kind |-> "undefined", length |-> 0]}
    \cup {[kind |-> "object", length |-> n] : n \in {6, 12}}

LoadInputs ==
    [text : {"object", "json", "malformed"}, cgview : BOOLEAN,
     version : LoadVersions, sequence : LoadSequences]

(* A load that returns leaves the map of the loaded sequence as the        *)
(* constructor of the viewer leaves it (circular, no zoom, no plot)        *)
LoadJSON(json, currentVersion) ==
    /\ Idle
    /\ LET result == IO_loadJSON(json, currentVersion, viewer.loading)
       IN  /\ viewer' = [viewer EXCEPT !.loading = result.loading]
           /\ contigs' = IF result.outcome = "returns" THEN result.contigs ELSE contigs
           /\ call' = [name |-> "loadJSON", json |-> json,
                       outcome |-> result.outcome, error |-> result.error]
    /\ seqLength' = mapContigLength(contigs')
    /\ bpRange' = Layout_updateScales(seqLength')
    /\ ctx' = <<>>
    /\ UNCHANGED <<picker, format, width, height, maxMapThicknessProportion,
                   zoomFactor, backboneCenterOffset, xDomain, yDomain, plotVars>>

InitLoad ==
    /\ InitLayout({"circular"}, {12}, {<<20, 20>>}, {50})
    /\ NoPlot

NextLoad ==
    \/ \E json \in LoadInputs, currentVersion \in CurrentVersions :
          LoadJSON(json, currentVersion)
    \/ Return

SpecLoad ==
    InitLoad /\ [][NextLoad]_vars

(* C27: once loadJSON has returned or has thrown the error again,          *)
(* viewer._loading is false                                                *)
C27_NotLoadingAfterLoad ==
    call.name = "loadJSON" => ~viewer.loading

(* The throws that happen before viewer._loading is set leave it as it was *)
C27_EarlyThrowKeepsLoading ==
    [][\A json \in LoadInputs, currentVersion \in CurrentVersions :
          (LoadJSON(json, currentVersion)
           /\ call'.error \notin {"", "TypeError"})
          => viewer'.loading = viewer.loading]_vars

-----------------------------------------------------------------------------
(* SpecExport: IO.downloadImage and IO.getSVG, and the callback of toBlob  *)

(* The toBlob callbacks that may wait at once *)
MaxPending == 2

(* what both exports do between saving and restoring: debug off, the       *)
(* layers of canvas.createLayers on the canvas, the map drawn on them      *)
IO_drawExport(v) ==
    [v EXCEPT !.debug = FALSE, !.layers = "tempLayers"]

(* downloadImage without the two assignments that restore *)
IO_downloadImage_notRestored(v) ==
    LET drawing == IO_drawExport(v)
    IN  [returned |-> [drawing EXCEPT !.toBlob = @ + 1],
         drawing |-> drawing, svg |-> FALSE]

(* downloadImage(width, height, filename): the viewer when it returns and  *)
(* the viewer the drawing saw; toBlob takes the callback, the browser runs *)
(* it later                                                                *)
IO_downloadImage(v) ==
    LET origLayers == v.layers
        debug == v.debug
        drawing == IO_drawExport(v)
    IN  [returned |-> [drawing EXCEPT !.toBlob = @ + 1,
                                      !.layers = origLayers,
                                      !.debug = debug],
         drawing |-> drawing, svg |-> FALSE]

(* getSVG(): nothing without viewer.externals.SVGContext; else as          *)
(* downloadImage, with the SVG text returned and no callback               *)
IO_getSVG(v, SVGContext) ==
    LET origLayers == v.layers
        debug == v.debug
        drawing == IO_drawExport(v)
    IN  IF ~SVGContext
        THEN [returned |-> v, drawing |-> v, svg |-> FALSE]
        ELSE [returned |-> [drawing EXCEPT !.layers = origLayers,
                                           !.debug = debug],
              drawing |-> drawing, svg |-> TRUE]

DownloadImage ==
    /\ Idle
    /\ viewer.toBlob < MaxPending
    /\ LET result == IO_downloadImage(viewer)
       IN  /\ viewer' = result.returned
           /\ call' = [name |-> "downloadImage", before |-> viewer,
                       drawing |-> result.drawing, svg |-> result.svg]
    /\ ctx' = <<>>
    /\ UNCHANGED <<picker, format, seqLength, width, height,
                   maxMapThicknessProportion, zoomFactor, backboneCenterOffset,
                   bpRange, xDomain, yDomain, plotVars, contigs>>

GetSVG(SVGContext) ==
    /\ Idle
    /\ LET result == IO_getSVG(viewer, SVGContext)
       IN  /\ viewer' = result.returned
           /\ call' = [name |-> "getSVG", before |-> viewer,
                       drawing |-> result.drawing, svg |-> result.svg]
    /\ ctx' = <<>>
    /\ UNCHANGED <<picker, format, seqLength, width, height,
                   maxMapThicknessProportion, zoomFactor, backboneCenterOffset,
                   bpRange, xDomain, yDomain, plotVars, contigs>>

(* (blob) => { this.download(blob, filename, 'image/png') }: run by the    *)
(* browser once no code of the page is running                             *)
BlobCallback ==
    /\ Idle
    /\ viewer.toBlob > 0
    /\ viewer' = [viewer EXCEPT !.toBlob = @ - 1]
    /\ call' = [name |-> "download", before |-> viewer,
                drawing |-> viewer, svg |-> FALSE]
    /\ ctx' = <<>>
    /\ UNCHANGED <<picker, format, seqLength, width, height,
                   maxMapThicknessProportion, zoomFactor, backboneCenterOffset,
                   bpRange, xDomain, yDomain, plotVars, contigs>>

(* viewer.debug = value *)
SetDebug(value) ==
    /\ Idle
    /\ viewer' = [viewer EXCEPT !.debug = value]
    /\ call' = [name |-> "debug", before |-> viewer, drawing |-> viewer,
                svg |-> FALSE]
    /\ ctx' = <<>>
    /\ UNCHANGED <<picker, format, seqLength, width, height,
                   maxMapThicknessProportion, zoomFactor, backboneCenterOffset,
                   bpRange, xDomain, yDomain, plotVars, contigs>>

InitExport ==
    /\ InitLayout({"circular", "linear"}, {6, 12}, {<<20, 20>>}, {50})
    /\ NoPlot

NextExport ==
    \/ DownloadImage
    \/ \E SVGContext \in BOOLEAN : GetSVG(SVGContext)
    \/ BlobCallback
    \/ \E value \in BOOLEAN : SetDebug(value)
    \/ Return

SpecExport ==
    InitExport /\ [][NextExport]_vars

(* C28: when downloadImage or getSVG returns, canvas._layers and           *)
(* viewer.debug are what they were when it was called, and the toBlob      *)
(* callback, run after downloadImage has returned, finds the original      *)
(* layers on the canvas, never the temporary ones                          *)
C28_ExportRestoresViewer ==
    /\ call.name \in {"downloadImage", "getSVG"}
       => /\ viewer.layers = call.before.layers
          /\ viewer.debug = call.before.debug
    /\ call.name = "download" => call.drawing.layers = "layers"
    /\ viewer.layers # "tempLayers"

(* downloadImage has drawn on the temporary layers with debug off, has     *)
(* returned with debug on again, and its callback has not run yet          *)
C28_Witness ==
    /\ call.name = "downloadImage"
    /\ call.before.debug
    /\ call.drawing.layers = "tempLayers" /\ ~call.drawing.debug
    /\ viewer.toBlob > 0

(* the callback of an earlier downloadImage runs while debug is on *)
C28_CallbackWitness ==
    call.name = "download" /\ viewer.debug /\ viewer.toBlob > 0

-----------------------------------------------------------------------------
(* SpecComplement: Sequence.complement and reverseComplement over strings  *)

(* The cases of the switch of complement: the characters it maps *)
Complements ==
    [char \in {"A", "T", "G", "C", "U", "Y", "S", "W", "K", "M", "B", "D", "H",
               "V", "N", "-", "."} |->
        CASE char = "A" -> "T"
          [] char = "T" -> "A"
          [] char = "G" -> "C"
          [] char = "C" -> "G"
          [] char = "U" -> "A"
          [] char = "Y" -> "R"
          [] char = "S" -> "S"
          [] char = "W" -> "W"
          [] char = "K" -> "M"
          [] char = "M" -> "K"
          [] char = "B" -> "V"
          [] char = "D" -> "H"
          [] char = "H" -> "D"
          [] char = "V" -> "B"
          [] char = "N" -> "N"
          [] char = "-" -> "-"
          [] char = "." -> "."]

(* compSeq + compChar while compChar has never been assigned *)
undefinedText == <<"u", "n", "d", "e", "f", "i", "n", "e", "d">>

(* the loop of complement from index i: the switch has no default, so a    *)
(* character it does not map leaves compChar as the turn before left it    *)
RECURSIVE complement_loop(_, _, _, _)
complement_loop(seq, i, compChar, compSeq) ==
    IF i > Len(seq)
    THEN compSeq
    ELSE LET char == seq[i]
             next == IF char \in DOMAIN Complements
                     THEN <<Complements[char]>>
                     ELSE compChar
         IN  complement_loop(seq, i + 1, next, compSeq \o next)

(* complement(seq) *)
Sequence_complement(seq) ==
    complement_loop(seq, 1, undefinedText, <<>>)

(* seq.split('').reverse().join('') *)
Reversed(seq) ==
    [i \in 1..Len(seq) |-> seq[Len(seq) + 1 - i]]

(* reverseComplement(seq) *)
Sequence_reverseComplement(seq) ==
    Sequence_complement(Reversed(seq))

MaxSeqChars == 3

(* Characters the switch maps, and a lower-case base and a letter that is  *)
(* no code, which it does not                                              *)
SeqChars == {"A", "C", "G", "U", "N", "a", "X"}

SeqStrings ==
    UNION {[1..n -> SeqChars] : n \in 0..MaxSeqChars}

Complement(seq) ==
    /\ Idle
    /\ call' = [name |-> "complement", seq |-> seq,
                result |-> Sequence_complement(seq)]
    /\ ctx' = <<>>
    /\ UNCHANGED layoutVars

ReverseComplement(seq) ==
    /\ Idle
    /\ call' = [name |-> "reverseComplement", seq |-> seq,
                result |-> Sequence_reverseComplement(seq)]
    /\ ctx' = <<>>
    /\ UNCHANGED layoutVars

InitComplement ==
    /\ InitLayout({"circular"}, {12}, {<<20, 20>>}, {50})
    /\ NoPlot

NextComplement ==
    \/ \E seq \in SeqStrings : Complement(seq)
    \/ \E seq \in SeqStrings : ReverseComplement(seq)
    \/ Return

SpecComplement ==
    InitComplement /\ [][NextComplement]_vars

(* C29: complement returns a string as long as its input, whose character  *)
(* at index i is the same for every input with that character at index i  *)
C29_ComplementPerCharacter ==
    call.name = "complement"
    => /\ Len(call.result) = Len(call.seq)
       /\ \A other \in SeqStrings : \A i \in 1..Len(call.seq) :
             (i <= Len(other) /\ other[i] = call.seq[i])
             => LET result == Sequence_complement(other)
                IN  i <= Len(result) /\ result[i] = call.result[i]

(* Over the characters the switch maps the result is the input mapped      *)
(* character by character, and reverseComplement is that of the reverse    *)
C29_MappedPerCharacter ==
    (call.name \in {"complement", "reverseComplement"}
     /\ \A i \in 1..Len(call.seq) : call.seq[i] \in DOMAIN Complements)
    => /\ Len(call.result) = Len(call.seq)
       /\ \A i \in 1..Len(call.seq) :
             call.result[i] =
                Complements[IF call.name = "complement"
                            THEN call.seq[i]
                            ELSE call.seq[Len(call.seq) + 1 - i]]

-----------------------------------------------------------------------------
(* SpecPicker: the favorites of the ColorPicker and their localStorage item *)

(* this.maxFavorites *)
maxFavorites == 13

(* Colors are numbered; the text of the item is a sequence of tokens, a    *)
(* number being the rgba string of that color in quotes                    *)

(* array.slice(0, n) *)
slice(array, n) ==
    SubSeq(array, 1, Min(n, Len(array)))

(* JSON.stringify(array) of an array of strings *)
RECURSIVE JSON_stringify_elements(_)
JSON_stringify_elements(array) ==
    IF Len(array) = 0 THEN <<>>
    ELSE IF Len(array) = 1 THEN <<array[1]>>
    ELSE <<array[1], ",">> \o JSON_stringify_elements(Tail(array))

JSON_stringify(array) ==
    <<"[">> \o JSON_stringify_elements(array) \o <<"]">>

(* JSON.parse(text) of the text of an array of strings or of {} *)
JSON_parse(text) ==
    IF text[1] = "["
    THEN [isArray |-> TRUE,
          list |-> [i \in 1..((Len(text) - 1) \div 2) |-> text[2 * i]]]
    ELSE [isArray |-> FALSE, list |-> <<>>]

(* loadFavorites(): the first maxFavorites entries of the stored array, no *)
(* favorites without the item or when it is no array                       *)
ColorPicker_loadFavorites(cp) ==
    LET favoritesString == IF cp.stored = NotStored THEN <<"[", "]">> ELSE cp.stored
        parsed == JSON_parse(favoritesString)
        favorites == IF parsed.isArray THEN parsed.list ELSE <<>>
    IN  [cp EXCEPT !.favorites = slice(favorites, maxFavorites)]

(* the click handler without the slice *)
ColorPicker_favoriteClick_notSliced(cp) ==
    LET favorites == IF \E i \in 1..Len(cp.favorites) : cp.favorites[i] = cp.color
                     THEN SelectSeq(cp.favorites, LAMBDA color : color # cp.color)
                     ELSE <<cp.color>> \o cp.favorites
    IN  [cp EXCEPT !.favorites = favorites,
                   !.stored = JSON_stringify(favorites)]

(* the click handler of the favorite button set by updateFavorites *)
ColorPicker_favoriteClick(cp) ==
    LET toggled == IF \E i \in 1..Len(cp.favorites) : cp.favorites[i] = cp.color
                   THEN SelectSeq(cp.favorites, LAMBDA color : color # cp.color)
                   ELSE <<cp.color>> \o cp.favorites
        favorites == slice(toggled, maxFavorites)
    IN  [cp EXCEPT !.favorites = favorites,
                   !.stored = JSON_stringify(favorites)]

(* Colors that are in no stored list *)
NewColors == 2

(* The items found in localStorage: none, an empty array, an object, and   *)
(* arrays of distinct colors shorter than, as long as and longer than      *)
(* maxFavorites                                                            *)
StoredItems ==
    {NotStored, <<"{", "}">>}
    \cup {JSON_stringify([i \in 1..n |-> i]) :
            n \in {0, 2, maxFavorites - 1, maxFavorites, maxFavorites + 2}}

(* The colors chosen: one of the stored ones and the new ones *)
ChosenColors ==
    {1} \cup ((maxFavorites + 3)..(maxFavorites + 2 + NewColors))

LoadFavorites ==
    /\ Idle
    /\ picker' = ColorPicker_loadFavorites(picker)
    /\ call' = [name |-> "loadFavorites", before |-> picker]
    /\ ctx' = <<>>
    /\ UNCHANGED <<viewer, format, seqLength, width, height,
                   maxMapThicknessProportion, zoomFactor, backboneCenterOffset,
                   bpRange, xDomain, yDomain, plotVars, contigs>>

(* setColor(value) *)
SetColor(value) ==
    /\ Idle
    /\ picker' = [picker EXCEPT !.color = value]
    /\ call' = [name |-> "setColor", before |-> picker]
    /\ ctx' = <<>>
    /\ UNCHANGED <<viewer, format, seqLength, width, height,
                   maxMapThicknessProportion, zoomFactor, backboneCenterOffset,
                   bpRange, xDomain, yDomain, plotVars, contigs>>

(* a click on the swatch of favorite i: setColor(color, false) *)
SwatchClick(i) ==
    /\ Idle
    /\ i \in 1..Len(picker.favorites)
    /\ picker' = [picker EXCEPT !.color = picker.favorites[i]]
    /\ call' = [name |-> "swatchClick", before |-> picker]
    /\ ctx' = <<>>
    /\ UNCHANGED <<viewer, format, seqLength, width, height,
                   maxMapThicknessProportion, zoomFactor, backboneCenterOffset,
                   bpRange, xDomain, yDomain, plotVars, contigs>>

(* a click on the favorite button *)
FavoriteClick ==
    /\ Idle
    /\ picker' = ColorPicker_favoriteClick(picker)
    /\ call' = [name |-> "favoriteClick", before |-> picker]
    /\ ctx' = <<>>
    /\ UNCHANGED <<viewer, format, seqLength, width, height,
                   maxMapThicknessProportion, zoomFactor, backboneCenterOffset,
                   bpRange, xDomain, yDomain, plotVars, contigs>>

InitPicker ==
    /\ InitMap({"circular"}, {12}, {<<20, 20>>}, {50})
    /\ NoPlot
    /\ viewer = Viewer_constructor
    /\ \E stored \in StoredItems : picker = ColorPicker_constructor(stored)

NextPicker ==
    \/ LoadFavorites
    \/ \E value \in ChosenColors : SetColor(value)
    \/ \E i \in {1} : SwatchClick(i)
    \/ FavoriteClick
    \/ Return

SpecPicker ==
    InitPicker /\ [][NextPicker]_vars

(* C30: the favorites are at most maxFavorites and all different; a click  *)
(* on the favorite button takes the current color out if it was a favorite *)
(* and else puts it in front of the others, the last one dropped when      *)
(* there were maxFavorites already; and the array the click has stored is  *)
(* the array of the favorites                                              *)
C30_FavoritesBoundedAndStored ==
    LET favorites == picker.favorites
        before == call.before.favorites
        color == picker.color
    IN  /\ Len(favorites) <= maxFavorites
        /\ \A i, j \in 1..Len(favorites) : i # j => favorites[i] # favorites[j]
        /\ call.name = "favoriteClick"
           => /\ IF \E i \in 1..Len(before) : before[i] = color
                 THEN favorites = SelectSeq(before, LAMBDA c : c # color)
                 ELSE /\ Len(favorites) = Min(Len(before) + 1, maxFavorites)
                      /\ favorites[1] = color
                      /\ \A i \in 2..Len(favorites) : favorites[i] = before[i - 1]
              /\ JSON_parse(picker.stored) = [isArray |-> TRUE, list |-> favorites]

(* A click has put a new color in front of maxFavorites favorites and the  *)
(* last of them is gone                                                    *)
C30_Witness ==
    /\ call.name = "favoriteClick"
    /\ Len(call.before.favorites) = maxFavorites
    /\ picker.favorites[1] = picker.color
    /\ \A i \in 1..Len(picker.favorites) :
          picker.favorites[i] # call.before.favorites[maxFavorites]

(* A click has taken the current color out of the favorites *)
C30_RemovedWitness ==
    /\ call.name = "favoriteClick"
    /\ Len(picker.favorites) = Len(call.before.favorites) - 1

=============================================================================
